---- MODULE Spec2Model ----
(***************************************************************************)
(* RustMail: the queue store (services/queue.rs, models/queue.rs), the     *)
(* suppression registry and event log (services/log.rs, models/log.rs)     *)
(* and the dispatch orchestrator (services/mailer.rs).                     *)
(*                                                                         *)
(* Every tokio RwLock guard is held for one action: an action is what a    *)
(* caller does between taking a lock and releasing it.  A handler that     *)
(* takes a lock, drops it and takes another one is several actions, with   *)
(* the caller's position kept in clients / workers / senders.              *)
(* Time is counted in units of 60 seconds.                                 *)
(***************************************************************************)
EXTENDS Integers, Sequences, FiniteSets, TLC

VARIABLES
    items,               \* QueueService.items: id -> QueueItem
    now,                 \* Utc::now(), in units of 60 s
    next_id,             \* the next Uuid::now_v7() (time-ordered, fresh)
    max_size,            \* QueueService.max_size
    retry_max_attempts,  \* QueueService.retry_policy.max_attempts
    clients,             \* callers of enqueue / schedule: their position
    workers,             \* callers of get_pending / claim / mark_*: their position
    logs,                \* LogService.logs: the entries, oldest first
    bounces,             \* LogService.bounces: lowercased address -> BounceRecord
    complaints,          \* LogService.complaints: lowercased address -> ComplaintRecord
    suppression_list,    \* LogService.suppression_list: lowercased address -> reason
    max_entries,         \* LogService.max_entries
    transport,           \* MailerService.transport is Some(_)
    senders,             \* callers of MailerService::send: their position
    unsuppressed,        \* addresses remove_from_suppression was called with
    driver,              \* a caller of claim and mark_failed: its position
    reporters,           \* callers of LogService::log, lock by lock: their position
    recorded,            \* lowercased address -> bounce events record_bounce has stored
    batchers,            \* callers of process_queue, with send in full: their position
    config,              \* MailerService.config: default_from is Some(_), queue_by_default
    bulkers,             \* callers of send_template_bulk: their position
    builder,             \* an EmailBuilder under construction
    made,                \* the last result of a construction of an Email
    policy,              \* the last call of RetryPolicy::get_delay: argument and result
    deferral,            \* the last QueueItem::mark_failed on an item with attempts left
    swept,               \* the last QueueService::cleanup: its argument and what it returned
    enqueuer,            \* a caller of enqueue_batch: its request, its position, its result
    templates,           \* TemplateService.templates: id -> EmailTemplate
    templates_by_slug,   \* TemplateService.templates_by_slug: slug -> id
    layouts,             \* TemplateService.layouts: the ids of the layouts
    default_layout,      \* TemplateService.default_layout: NoId or an id
    callers              \* callers of the TemplateService or the LogService: position and locks held

qvars == <<items, now, next_id, max_size, retry_max_attempts, clients, workers>>
rvars == <<logs, bounces, complaints, suppression_list, max_entries, transport,
           senders, unsuppressed>>
dvars == <<driver>>
pvars == <<reporters, recorded>>
bvars == <<batchers>>
mvars == <<config, bulkers>>
evars == <<builder, made>>
yvars == <<policy, deferral>>
tvars == <<templates, templates_by_slug, layouts, default_layout, callers>>
xvars == <<swept, enqueuer, tvars>>
vars == <<qvars, rvars, dvars, pvars, bvars, mvars, evars, yvars, xvars>>

----------------------------------------------------------------------------
(* Bounds of the model *)

MaxTime == 1         \* the clock of Spec stops here
MaxIds == 2          \* ids Spec hands out
SelectMaxTime == 2   \* the clock of SpecSelect stops here
SelectMaxIds == 2    \* ids SpecSelect hands out
AdmitMaxIds == 3     \* ids SpecAdmit hands out

Clients == {"c1", "c2"}
Workers == {"w1", "w2"}
Priorities == {0, 1}
PolicyAttempts == {0, 2}     \* retry_policy.max_attempts, as configured
ErrorTexts == {"SMTP timeout"}
QueueEmails == {"a@x.com"}
Durations == {0, 1}          \* older_than, in units of 60 s

NoTime == -1
NoText == "none"
NoId == 0

Min(a, b) == IF a <= b THEN a ELSE b

RECURSIVE Pow2(_)
Pow2(n) == IF n = 0 THEN 1 ELSE 2 * Pow2(n - 1)

----------------------------------------------------------------------------
(* models/queue.rs: QueueItem *)

\* QueueItem::new(email).with_max_attempts(max), scheduled at t
NewItem(email, t, sched, max) ==
    [ email |-> email, status |-> "Pending", attempts |-> 0, max_attempts |-> max,
      last_error |-> NoText, scheduled_at |-> sched, next_retry_at |-> NoTime,
      started_at |-> NoTime, completed_at |-> NoTime, priority |-> 0,
      worker_id |-> NoText ]

\* can_retry with the comparison off by one
can_retry_inclusive(item) == item.attempts <= item.max_attempts

can_retry(item) == item.attempts < item.max_attempts

\* start_processing that leaves the attempt counter alone
start_processing_uncounted(item, worker_id, t) ==
    [item EXCEPT !.status = "Processing", !.started_at = t,
                 !.worker_id = worker_id]

start_processing(item, worker_id, t) ==
    [item EXCEPT !.status = "Processing", !.started_at = t,
                 !.worker_id = worker_id, !.attempts = @ + 1]

mark_sent(item, t) ==
    [item EXCEPT !.status = "Sent", !.completed_at = t, !.worker_id = NoText]

\* the back-off with the cap on the shift left out
BackoffDelayUncapped(attempts) == Pow2(attempts)

\* the delay is 60 s * (1 << min(attempts, 5)): Pow2(..) units of 60 s
BackoffDelay(attempts) == Pow2(Min(attempts, 5))

\* the texts mark_failed is called with in SpecFail: one that the policy
\* calls retryable and one that it does not
FailureTexts == {"SMTP Timeout", "mailbox unavailable"}

\* RetryPolicy::default().retryable_errors
RetryableErrors == {"connection", "timeout", "temporary", "rate limit"}

\* the entries of RetryableErrors that error.to_lowercase() contains
Contained(error) ==
    CASE error = "SMTP Timeout" -> {"timeout"}
      [] error = "SMTP timeout" -> {"timeout"}
      [] OTHER -> {}

\* RetryPolicy::is_retryable
is_retryable(error) == \E e \in RetryableErrors : e \in Contained(error)

\* mark_failed that gives up at once on an error that is not retryable
mark_failed_by_text(item, error, t) ==
    LET e == [item EXCEPT !.last_error = error, !.worker_id = NoText]
    IN  IF can_retry(e) /\ is_retryable(error)
        THEN [e EXCEPT !.status = "Deferred",
                       !.next_retry_at = t + BackoffDelay(e.attempts)]
        ELSE [e EXCEPT !.status = "Failed", !.completed_at = t]

mark_failed(item, error, t) ==
    LET e == [item EXCEPT !.last_error = error, !.worker_id = NoText]
    IN  IF can_retry(e)
        THEN [e EXCEPT !.status = "Deferred",
                       !.next_retry_at = t + BackoffDelay(e.attempts)]
        ELSE [e EXCEPT !.status = "Failed", !.completed_at = t]

cancel(item, t) == [item EXCEPT !.status = "Cancelled", !.completed_at = t]

----------------------------------------------------------------------------
(* services/queue.rs: QueueService, as functions of the item map *)

Size(its) == Cardinality(DOMAIN its)

\* the filter without the scheduled_at test
EligibleIgnoringSchedule(its, t) ==
    { id \in DOMAIN its :
        /\ its[id].status \in {"Pending", "Deferred"}
        /\ (its[id].next_retry_at = NoTime \/ its[id].next_retry_at <= t) }

\* the filter of get_pending
\* get_pending that passes over the Deferred items
EligiblePendingOnly(its, t) ==
    { id \in DOMAIN its : its[id].status = "Pending" /\ its[id].scheduled_at <= t }

Eligible(its, t) ==
    { id \in DOMAIN its :
        /\ its[id].status \in {"Pending", "Deferred"}
        /\ its[id].scheduled_at <= t
        /\ (its[id].next_retry_at = NoTime \/ its[id].next_retry_at <= t) }

\* the comparator of sort_by: priority descending, then scheduled_at ascending
SortsBefore(a, b) ==
    \/ a.priority > b.priority
    \/ (a.priority = b.priority /\ a.scheduled_at < b.scheduled_at)

Orders(S) ==
    { s \in [1..Cardinality(S) -> S] :
        \A i, j \in 1..Cardinality(S) : i # j => s[i] # s[j] }

\* items.values() comes in the HashMap's unspecified order and sort_by is a
\* stable sort: items that compare equal stay in any order
SortedPending(its, t) ==
    { s \in Orders(Eligible(its, t)) :
        \A i, j \in DOMAIN s : i < j => ~SortsBefore(its[s[j]], its[s[i]]) }

Truncate(s, n) == SubSeq(s, 1, Min(n, Len(s)))

\* every sequence of ids get_pending(limit) may return at time t
get_pending(its, t, limit) == { Truncate(s, limit) : s \in SortedPending(its, t) }

\* claim without the status check
ClaimResultNoStatusCheck(its, id) ==
    IF id \notin DOMAIN its THEN "NotFound" ELSE "Ok"

ClaimResult(its, id) ==
    IF id \notin DOMAIN its THEN "NotFound"
    ELSE IF its[id].status \notin {"Pending", "Deferred"} THEN "Invalid"
    ELSE "Ok"

claim(its, id, worker_id, t) ==
    IF ClaimResult(its, id) = "Ok"
    THEN [its EXCEPT ![id] = start_processing(@, worker_id, t)]
    ELSE its

MarkResult(its, id) == IF id \notin DOMAIN its THEN "NotFound" ELSE "Ok"

svc_mark_sent(its, id, t) ==
    IF MarkResult(its, id) = "Ok" THEN [its EXCEPT ![id] = mark_sent(@, t)] ELSE its

svc_mark_failed(its, id, error, t) ==
    IF MarkResult(its, id) = "Ok"
    THEN [its EXCEPT ![id] = mark_failed(@, error, t)]
    ELSE its

CancelResult(its, id) ==
    IF id \notin DOMAIN its THEN "NotFound"
    ELSE IF its[id].status = "Sent" THEN "Invalid"
    ELSE "Ok"

svc_cancel(its, id, t) ==
    IF CancelResult(its, id) = "Ok" THEN [its EXCEPT ![id] = cancel(@, t)] ELSE its

\* retry that accepts an item whatever its status
RetryResultAnyStatus(its, id) ==
    IF id \notin DOMAIN its THEN "NotFound" ELSE "Ok"

RetryResult(its, id) ==
    IF id \notin DOMAIN its THEN "NotFound"
    ELSE IF its[id].status \notin {"Failed", "Cancelled"} THEN "Invalid"
    ELSE "Ok"

retry(its, id, t) ==
    IF RetryResult(its, id) = "Ok"
    THEN [its EXCEPT ![id] = [@ EXCEPT !.status = "Pending", !.attempts = 0,
                                       !.last_error = NoText,
                                       !.next_retry_at = NoTime,
                                       !.scheduled_at = t]]
    ELSE its

set_priority(its, id, priority) ==
    IF id \in DOMAIN its THEN [its EXCEPT ![id].priority = priority] ELSE its

\* a cleanup that looks at completed_at only
CleanupIdsByTime(its, t, older_than) ==
    { id \in DOMAIN its :
        /\ its[id].completed_at # NoTime
        /\ its[id].completed_at < t - older_than }

\* the ids cleanup(older_than) removes at time t
CleanupIds(its, t, older_than) ==
    { id \in DOMAIN its :
        /\ its[id].status \in {"Sent", "Failed", "Cancelled"}
        /\ its[id].completed_at # NoTime
        /\ its[id].completed_at < t - older_than }

cleanup(its, t, older_than) ==
    [id \in DOMAIN its \ CleanupIds(its, t, older_than) |-> its[id]]

----------------------------------------------------------------------------
(* models/log.rs and services/log.rs: the event log and the suppression    *)
(* registry.  Records keep the fields the services read or write; ids,     *)
(* subjects, reasons and diagnostics are carried along unread and are left *)
(* out.                                                                    *)

Addresses == {"a@x.com", "A@x.com", "b@x.com"}

\* str::to_lowercase on the addresses of the model
Lower(email) == IF email = "A@x.com" THEN "a@x.com" ELSE email

\* HashMap::insert and HashMap::remove
Put(map, k, v) == [x \in DOMAIN map \cup {k} |-> IF x = k THEN v ELSE map[x]]
Remove(map, k) == [x \in DOMAIN map \ {k} |-> map[x]]

\* EmailLog::new(email_id, event, recipient, _) at time t
NewEntry(email_id, event, recipient, t) ==
    [email_id |-> email_id, event |-> event, recipient |-> recipient,
     timestamp |-> t]

\* BounceRecord::new(_, bounce_type)
NewBounceRecord(bounce_type) ==
    [bounce_type |-> bounce_type, bounce_count |-> 1,
     suppressed |-> bounce_type = "Hard"]

\* BounceRecord::add_bounce
add_bounce(record) ==
    LET count == record.bounce_count + 1
    IN  [record EXCEPT !.bounce_count = count,
                       !.suppressed = IF record.bounce_type = "Soft" /\ count >= 3
                                      THEN TRUE ELSE @]

\* ComplaintRecord::new(_, complaint_type)
NewComplaintRecord(complaint_type) ==
    [complaint_type |-> complaint_type, suppressed |-> complaint_type = "Abuse"]

\* add_to_suppression without to_lowercase
add_to_suppression_exact(list, email, reason) == Put(list, email, reason)

add_to_suppression(list, email, reason) == Put(list, Lower(email), reason)
remove_from_suppression(list, email) == Remove(list, Lower(email))
\* is_suppressed without to_lowercase
is_suppressed_exact(list, email) == email \in DOMAIN list

is_suppressed(list, email) == Lower(email) \in DOMAIN list

\* get_suppression_reason, get_bounce, get_complaint: Option, None as NoText
get_suppression_reason(list, email) ==
    IF Lower(email) \in DOMAIN list THEN list[Lower(email)] ELSE NoText
get_bounce(bs, email) ==
    IF Lower(email) \in DOMAIN bs THEN bs[Lower(email)] ELSE NoText
get_complaint(cs, email) ==
    IF Lower(email) \in DOMAIN cs THEN cs[Lower(email)] ELSE NoText

\* record_bounce, lines 245-249: the bounce type of the event
BounceTypeOf(event) ==
    IF event = "HardBounce" THEN "Hard"
    ELSE IF event = "SoftBounce" THEN "Soft" ELSE "General"

\* bounces.get_mut(&email): <<record>>, or <<>> for None
Found(bs, email) == IF email \in DOMAIN bs THEN <<bs[email]>> ELSE <<>>

\* record_bounce, lines 253-263: the record it stores, given what it found
BouncedRecord(found, bounce_type) ==
    IF found # <<>>
    THEN LET added == add_bounce(found[1])
         IN  IF added.bounce_type = "Soft" /\ bounce_type = "Hard"
             THEN [added EXCEPT !.bounce_type = "Hard"]
             ELSE added
    ELSE NewBounceRecord(bounce_type)

\* record_bounce on the registry reg = [bounces, complaints, suppression_list]
record_bounce(reg, entry) ==
    LET email == Lower(entry.recipient)
        bounce_type == BounceTypeOf(entry.event)
        record == BouncedRecord(Found(reg.bounces, email), bounce_type)
    IN  [reg EXCEPT !.bounces = Put(@, email, record),
                    !.suppression_list =
                        IF bounce_type = "Hard"
                        THEN add_to_suppression(@, email, "HardBounce")
                        ELSE @]

record_complaint(reg, entry) ==
    LET email == Lower(entry.recipient)
    IN  [reg EXCEPT !.complaints = Put(@, email, NewComplaintRecord("Abuse")),
                    !.suppression_list =
                        add_to_suppression(@, email, "SpamComplaint")]

\* log, lines 66-77: what the event does to the registry
HandleSpecial(reg, entry) ==
    IF entry.event \in {"Bounced", "HardBounce", "SoftBounce"}
    THEN record_bounce(reg, entry)
    ELSE IF entry.event = "SpamComplaint"
    THEN record_complaint(reg, entry)
    ELSE IF entry.event = "Unsubscribed"
    THEN [reg EXCEPT !.suppression_list =
                         add_to_suppression(@, entry.recipient, "Unsubscribed")]
    ELSE reg

\* log, lines 79-85: push, then drop the oldest entries over the limit
\* log's trim with the drain at the wrong end: a full log keeps its oldest
\* entries and loses the one just pushed
\* a log that puts the new entry in front and cuts at the back
PushTrimFront(entries, entry, max) ==
    LET pushed == <<entry>> \o entries
    IN  IF Len(pushed) > max THEN SubSeq(pushed, 1, max) ELSE pushed

\* LogService::cleanup: logs.retain(|log| log.timestamp > cutoff)
log_cleanup(entries, t, older_than) ==
    LET Newer(entry) == entry.timestamp > t - older_than
    IN  SelectSeq(entries, Newer)

PushTrimOldest(entries, entry, max) ==
    LET pushed == Append(entries, entry)
    IN  IF Len(pushed) > max THEN SubSeq(pushed, 1, max) ELSE pushed

PushTrim(entries, entry, max) ==
    LET pushed == Append(entries, entry)
    IN  IF Len(pushed) > max
        THEN SubSeq(pushed, Len(pushed) - max + 1, Len(pushed))
        ELSE pushed

\* a rate in per cent, numerator * 100 over denominator, as the pair
\* <<numerator * 100, denominator>>; 0.0 is <<0, 1>>
Rate(n, d) == <<n * 100, d>>
ZeroRate == <<0, 1>>

\* LogService::stats without arguments looks 30 days back: 43200 units of 60 s
ThirtyDays == 43200
\* QueueService::stats counts the last 24 hours: 1440 units of 60 s
OneDay == 1440

\* LogStats::calculate_rates without the tests on the denominators
calculate_rates_unguarded(st) ==
    [st EXCEPT !.delivery_rate = Rate(st.total_delivered, st.total_sent),
               !.bounce_rate = Rate(st.total_bounced, st.total_sent),
               !.spam_rate = Rate(st.total_spam_complaints, st.total_sent),
               !.open_rate = Rate(st.total_opened, st.total_delivered),
               !.click_rate = Rate(st.total_clicked, st.total_opened)]

\* LogStats::calculate_rates
calculate_rates(st) ==
    LET by_sent ==
            IF st.total_sent > 0
            THEN [st EXCEPT
                    !.delivery_rate = Rate(st.total_delivered, st.total_sent),
                    !.bounce_rate = Rate(st.total_bounced, st.total_sent),
                    !.spam_rate = Rate(st.total_spam_complaints, st.total_sent)]
            ELSE st
        by_delivered ==
            IF st.total_delivered > 0
            THEN [by_sent EXCEPT
                    !.open_rate = Rate(st.total_opened, st.total_delivered)]
            ELSE by_sent
    IN  IF st.total_opened > 0
        THEN [by_delivered EXCEPT
                !.click_rate = Rate(st.total_clicked, st.total_opened)]
        ELSE by_delivered

\* the entries of the window [from, to] that carry one of the events
CountEvents(entries, events, from, to) ==
    Cardinality({ i \in DOMAIN entries :
                    /\ entries[i].event \in events
                    /\ ~(entries[i].timestamp < from \/ entries[i].timestamp > to) })

\* LogService::stats(from_date, to_date) at time t; NoTime is None
log_stats(entries, from_date, to_date, t) ==
    LET from == IF from_date = NoTime THEN t - ThirtyDays ELSE from_date
        to == IF to_date = NoTime THEN t ELSE to_date
        n(events) == CountEvents(entries, events, from, to)
    IN  calculate_rates(
          [total_sent |-> n({"Sent"}),
           total_delivered |-> n({"Delivered"}),
           total_bounced |-> n({"Bounced", "HardBounce", "SoftBounce"}),
           total_opened |-> n({"Opened"}),
           total_clicked |-> n({"Clicked"}),
           total_spam_complaints |-> n({"SpamComplaint"}),
           total_unsubscribes |-> n({"Unsubscribed"}),
           total_failed |-> n({"Failed"}),
           delivery_rate |-> ZeroRate, open_rate |-> ZeroRate,
           click_rate |-> ZeroRate, bounce_rate |-> ZeroRate,
           spam_rate |-> ZeroRate])

\* QueueService::stats at time t
queue_stats(its, t) ==
    LET day_ago == t - OneDay
        with(status) == { id \in DOMAIN its : its[id].status = status }
        lately(status) ==
            { id \in with(status) :
                its[id].completed_at # NoTime /\ its[id].completed_at > day_ago }
        sent == Cardinality(lately("Sent"))
        failed == Cardinality(lately("Failed"))
    IN  [pending |-> Cardinality(with("Pending")),
         processing |-> Cardinality(with("Processing")),
         sent |-> sent,
         failed |-> failed,
         deferred |-> Cardinality(with("Deferred")),
         success_rate |-> IF sent + failed > 0 THEN Rate(sent, sent + failed)
                          ELSE ZeroRate]

NoMessage == [id |-> NoId, to |-> <<>>, cc |-> <<>>, bcc |-> <<>>]
NoResult == <<NoText, NoText>>

\* quiet: the suppression list has not changed since the call began;
\* transported: the call has reached transport.send
IdleSender ==
    [pc |-> "idle", msg |-> NoMessage, i |-> 0, result |-> NoResult,
     quiet |-> TRUE, transported |-> FALSE]

----------------------------------------------------------------------------
(* The queue store and its callers *)

IdleClient == [pc |-> "idle", sched |-> NoTime]
\* errors: the (id, text) pairs process_queue has pushed so far; they are
\* handed to the caller when process_queue returns
IdleWorker ==
    [pc |-> "idle", batch |-> <<>>, cur |-> NoId, fenced |-> FALSE,
     errors |-> <<>>]

\* process_queue claims with the literal "worker"
WorkerId == "worker"

InFlight == { c \in Clients : clients[c].pc = "insert" }

\* enqueue / schedule, first half: the capacity check under the read lock;
\* QueueFull returns the caller to "idle".  send_at = NoTime is enqueue
\* (QueueItem::new, scheduled at creation time).  At most max_ids ids are
\* handed out.
AdmitCheck(c, send_at, max_ids) ==
    /\ clients[c].pc = "idle"
    /\ next_id + Cardinality(InFlight) <= max_ids
    /\ clients' = [clients EXCEPT ![c] =
          IF Size(items) >= max_size
          THEN IdleClient
          ELSE [pc |-> "insert", sched |-> send_at]]
    /\ UNCHANGED <<items, now, next_id, max_size, retry_max_attempts, workers,
                   rvars, dvars, bvars, pvars, mvars, evars, xvars, yvars>>

\* enqueue / schedule, second half: the insert under the write lock
AdmitInsert(c, email) ==
    /\ clients[c].pc = "insert"
    /\ LET sched == IF clients[c].sched = NoTime THEN now ELSE clients[c].sched
       IN  items' = [id \in DOMAIN items \cup {next_id} |->
                        IF id = next_id
                        THEN NewItem(email, now, sched, retry_max_attempts)
                        ELSE items[id]]
    /\ next_id' = next_id + 1
    /\ clients' = [clients EXCEPT ![c] = IdleClient]
    /\ UNCHANGED <<now, max_size, retry_max_attempts, workers,
                   rvars, dvars, bvars, pvars, mvars, evars, xvars, yvars>>

\* the text of QueueError, as process_queue records it
ErrorText(result) ==
    IF result = "NotFound" THEN "Item not found" ELSE "Invalid operation"

\* process_queue goes on to the next item of its batch, or returns
Continue(wk, rest) ==
    IF rest = <<>> THEN IdleWorker
    ELSE [wk EXCEPT !.pc = "loop", !.batch = rest, !.cur = NoId, !.fenced = FALSE]

\* process_queue, lines 253-257: the eligibility snapshot
GetPending(w, limit) ==
    /\ workers[w].pc = "idle"
    /\ \E b \in get_pending(items, now, limit) :
          workers' = [workers EXCEPT ![w] = Continue(IdleWorker, b)]
    /\ UNCHANGED <<items, now, next_id, max_size, retry_max_attempts, clients,
                   rvars, dvars, bvars, pvars, mvars, evars, xvars, yvars>>

\* process_queue, lines 259-268: claim the next item of the batch; when the
\* claim fails, count it and go on
Claim(w) ==
    /\ workers[w].pc = "loop"
    /\ LET wk == workers[w]
           id == Head(wk.batch)
           rest == Tail(wk.batch)
           result == ClaimResult(items, id)
       IN  /\ items' = claim(items, id, WorkerId, now)
           /\ workers' = [workers EXCEPT ![w] =
                 IF result = "Ok"
                 THEN [wk EXCEPT !.pc = "send", !.batch = rest, !.cur = id]
                 ELSE Continue([wk EXCEPT !.errors =
                                              Append(@, <<id, ErrorText(result)>>)],
                               rest)]
    /\ UNCHANGED <<now, next_id, max_size, retry_max_attempts, clients,
                   rvars, dvars, bvars, pvars, mvars, evars, xvars, yvars>>

\* process_queue, lines 272-275: the delivery succeeded
MarkSent(w) ==
    /\ workers[w].pc = "send"
    /\ items' = svc_mark_sent(items, workers[w].cur, now)
    /\ workers' = [workers EXCEPT ![w] =
          Continue(workers[w], workers[w].batch)]
    /\ UNCHANGED <<now, next_id, max_size, retry_max_attempts, clients,
                   rvars, dvars, bvars, pvars, mvars, evars, xvars, yvars>>

\* process_queue, lines 276-280: the delivery failed with text error
MarkFailed(w, error) ==
    /\ workers[w].pc = "send"
    /\ items' = svc_mark_failed(items, workers[w].cur, error, now)
    /\ workers' = [workers EXCEPT ![w] =
          Continue([@ EXCEPT !.errors = Append(@, <<workers[w].cur, error>>)],
                   workers[w].batch)]
    /\ UNCHANGED <<now, next_id, max_size, retry_max_attempts, clients,
                   rvars, dvars, bvars, pvars, mvars, evars, xvars, yvars>>

\* fenced remembers that the item a worker holds was cancelled while it held it
Cancel(id) ==
    /\ items' = svc_cancel(items, id, now)
    /\ workers' = [w \in Workers |->
          IF /\ workers[w].pc = "send" /\ workers[w].cur = id
             /\ CancelResult(items, id) = "Ok"
          THEN [workers[w] EXCEPT !.fenced = TRUE]
          ELSE workers[w]]
    /\ UNCHANGED <<now, next_id, max_size, retry_max_attempts, clients,
                   rvars, dvars, bvars, pvars, mvars, evars, xvars, yvars>>

Retry(id) ==
    /\ items' = retry(items, id, now)
    /\ UNCHANGED <<now, next_id, max_size, retry_max_attempts, clients, workers,
                   rvars, dvars, bvars, pvars, mvars, evars, xvars, yvars>>

SetPriority(id, priority) ==
    /\ items' = set_priority(items, id, priority)
    /\ UNCHANGED <<now, next_id, max_size, retry_max_attempts, clients, workers,
                   rvars, dvars, bvars, pvars, mvars, evars, xvars, yvars>>

Cleanup(older_than) ==
    /\ items' = cleanup(items, now, older_than)
    /\ UNCHANGED <<now, next_id, max_size, retry_max_attempts, clients, workers,
                   rvars, dvars, bvars, pvars, mvars, evars, xvars, yvars>>

Tick(max_time) ==
    /\ now < max_time
    /\ now' = now + 1
    /\ UNCHANGED <<items, next_id, max_size, retry_max_attempts, clients, workers,
                   rvars, dvars, bvars, pvars, mvars, evars, xvars, yvars>>

Batchers == {"b1"}
\* batch: the items still to process; selected: what get_pending returned;
\* cur: the claimed item; sent, failed, errors: the ProcessResult so far
IdleBatcher ==
    [pc |-> "idle", batch |-> <<>>, selected |-> <<>>, cur |-> NoId,
     sent |-> 0, failed |-> 0, errors |-> <<>>]

Reporters == {"p1", "p2"}
NoEntry == NewEntry(NoId, NoText, NoText, NoTime)
IdleReporter == [pc |-> "idle", entry |-> NoEntry, found |-> <<>>]

\* a caller that claims an item and then reports its failure, again and
\* again; failures counts its mark_failed calls per item
IdleDriver == [pc |-> "claim", id |-> NoId, failures |-> << >>]

FailuresOf(id) == IF id \in DOMAIN driver.failures THEN driver.failures[id] ELSE 0

DriverClaim(id) ==
    /\ driver.pc = "claim"
    /\ items' = claim(items, id, "driver", now)
    /\ driver' = IF ClaimResult(items, id) = "Ok"
                 THEN [driver EXCEPT !.pc = "fail", !.id = id]
                 ELSE driver
    /\ UNCHANGED <<now, next_id, max_size, retry_max_attempts, clients, workers,
                   rvars, pvars, mvars, evars, xvars, yvars, bvars>>

DriverFail(error) ==
    /\ driver.pc = "fail"
    /\ items' = svc_mark_failed(items, driver.id, error, now)
    /\ driver' = [driver EXCEPT !.pc = "claim",
                      !.failures = Put(@, driver.id, FailuresOf(driver.id) + 1)]
    /\ UNCHANGED <<now, next_id, max_size, retry_max_attempts, clients, workers,
                   rvars, pvars, mvars, evars, xvars, yvars, bvars>>

\* MailerConfig::default(): no default_from, queue_by_default
DefaultConfig == [default_from |-> FALSE, queue_by_default |-> TRUE]
Configs == [default_from : BOOLEAN, queue_by_default : BOOLEAN]

\* known: template_slug names a registered template; input: the recipients
\* passed in, each an address and whether its data holds every required
\* variable; rest: those still to come; results: the Vec built so far
Bulkers == {"k1"}
IdleBulker ==
    [pc |-> "idle", known |-> FALSE, input |-> <<>>, rest |-> <<>>, results |-> <<>>]

\* a u32 as its top bit and its low 31 bits: the value is top * 2^31 + low
U32(top, low) == [top |-> top, low |-> low]
NoCall == [attempt |-> U32(FALSE, 0), delay |-> NoTime]

\* EmailBuilder::default(): nothing set; an Option is NoText or its value,
\* a body is there or not
EmptyBuilder ==
    [from |-> NoText, to |-> <<>>, cc |-> <<>>, bcc |-> <<>>, subject |-> NoText,
     text_body |-> FALSE, html_body |-> FALSE]

\* BatchSendResult, empty
NoBatchResult == [queued |-> 0, failed |-> 0, queue_ids |-> <<>>, errors |-> <<>>]

\* item: the QueueItem enqueue_batch got back from enqueue / schedule, after
\* the Ok arm has worked on it; an Option is <<>> or <<value>>
IdleEnqueuer ==
    [pc |-> "idle", request |-> <<>>, index |-> 0, item |-> <<>>,
     result |-> NoBatchResult]

Callers == {"t1", "t2"}
\* held: the guards alive, as <<lock, mode>>; found: what a lookup returned,
\* then the outcome of the call (a layout changes the html only)
IdleCaller == [pc |-> "idle", arg |-> <<>>, held |-> {}, found |-> <<>>]

\* no cleanup yet
NoSweep == [older_than |-> NoTime, count |-> 0]

QueueInit ==
    /\ items = << >>
    /\ now = 0
    /\ next_id = 1
    /\ clients = [c \in Clients |-> IdleClient]
    /\ workers = [w \in Workers |-> IdleWorker]
    /\ driver = IdleDriver
    /\ reporters = [p \in Reporters |-> IdleReporter]
    /\ recorded = << >>
    /\ batchers = [b \in Batchers |-> IdleBatcher]
    /\ config = DefaultConfig
    /\ bulkers = [k \in Bulkers |-> IdleBulker]
    /\ builder = EmptyBuilder
    /\ made = <<>>
    /\ policy = NoCall
    /\ deferral = <<>>
    /\ swept = NoSweep
    /\ enqueuer = IdleEnqueuer
    /\ templates = << >>
    /\ templates_by_slug = << >>
    /\ layouts = {}
    /\ default_layout = NoId
    /\ callers = [t \in Callers |-> IdleCaller]

----------------------------------------------------------------------------
(* The registry, the event log and MailerService::send *)

Senders == {"s1"}
EmailIds == {1}
LogEvents ==
    {"Delivered", "Bounced", "SoftBounce", "HardBounce", "SpamComplaint",
     "Unsubscribed"}
Reasons == {"Manual"}
SmtpErrors == {"Connection error: Not connected"}

\* an Email: its id and its three recipient lists, at most one address each
Lists == {<<>>} \cup { <<a>> : a \in Addresses }
Messages == [id : EmailIds, to : Lists, cc : Lists, bcc : Lists]

Registry ==
    [bounces |-> bounces, complaints |-> complaints,
     suppression_list |-> suppression_list]

\* the calls of send in progress note that the suppression list becomes list
Noting(sds, list) ==
    [s \in Senders |->
        IF list # suppression_list THEN [sds[s] EXCEPT !.quiet = FALSE] ELSE sds[s]]

\* LogService::log(entry), under the logs write lock from start to end
LogEffect(sds, entry) ==
    LET reg == HandleSpecial(Registry, entry)
    IN  /\ bounces' = reg.bounces
        /\ complaints' = reg.complaints
        /\ suppression_list' = reg.suppression_list
        /\ logs' = PushTrim(logs, entry, max_entries)
        /\ senders' = Noting(sds, reg.suppression_list)

\* an event recorded from outside (a provider's bounce or complaint report);
\* no address collects more than max_bounces bounces
Log(email_id, event, recipient, max_bounces) ==
    /\ (event \in {"Bounced", "HardBounce", "SoftBounce"}
           /\ Lower(recipient) \in DOMAIN bounces)
       => bounces[Lower(recipient)].bounce_count < max_bounces
    /\ LogEffect(senders, NewEntry(email_id, event, recipient, now))
    /\ UNCHANGED <<qvars, dvars, bvars, pvars, mvars, evars, xvars, yvars, max_entries, transport, unsuppressed>>

AddToSuppression(email, reason) ==
    /\ suppression_list' = add_to_suppression(suppression_list, email, reason)
    /\ senders' = Noting(senders, suppression_list')
    /\ UNCHANGED <<qvars, dvars, bvars, pvars, mvars, evars, xvars, yvars, logs, bounces, complaints, max_entries, transport,
                   unsuppressed>>

RemoveFromSuppression(email) ==
    /\ suppression_list' = remove_from_suppression(suppression_list, email)
    /\ senders' = Noting(senders, suppression_list')
    /\ unsuppressed' = unsuppressed \cup {Lower(email)}
    /\ UNCHANGED <<qvars, dvars, bvars, pvars, mvars, evars, xvars, yvars, logs, bounces, complaints, max_entries, transport>>

\* configure_smtp, lines 100-101, after a successful connect: the write
\* lock waits for the calls of send that hold the read lock
ConfigureSmtp ==
    /\ \A s \in Senders : senders[s].pc \notin {"log_queued", "transport", "log_result"}
    /\ transport' = TRUE
    /\ UNCHANGED <<qvars, dvars, bvars, pvars, mvars, evars, xvars, yvars, logs, bounces, complaints, suppression_list,
                   max_entries, senders, unsuppressed>>

\* send, line 124: the recipients the suppression check walks through
RecipientsToOnly(email) == email.to
\* the recipients of to alone
RecipientsInTo(email) == email.to

\* email.to.iter().chain(email.cc.iter()).chain(email.bcc.iter())
Recipients(email) == email.to \o email.cc \o email.bcc

\* the call of send(msg) begins
SendBegin(s, msg) ==
    /\ senders[s].pc \in {"idle", "done"}
    /\ senders' = [senders EXCEPT ![s] =
          [IdleSender EXCEPT !.msg = msg, !.i = 1,
              !.pc = IF Recipients(msg) = <<>> THEN "acquire" ELSE "check"]]
    /\ UNCHANGED <<qvars, dvars, bvars, pvars, mvars, evars, xvars, yvars, logs, bounces, complaints, suppression_list,
                   max_entries, transport, unsuppressed>>

\* send, lines 124-128: is_suppressed on the next recipient
SendCheck(s) ==
    /\ senders[s].pc = "check"
    /\ LET sd == senders[s]
           recipient == Recipients(sd.msg)[sd.i]
       IN  senders' = [senders EXCEPT ![s] =
              IF is_suppressed(suppression_list, recipient)
              THEN [sd EXCEPT !.pc = "done", !.result = <<"Suppressed", recipient>>]
              ELSE IF sd.i = Len(Recipients(sd.msg))
              THEN [sd EXCEPT !.pc = "acquire", !.i = 1]
              ELSE [sd EXCEPT !.i = sd.i + 1]]
    /\ UNCHANGED <<qvars, dvars, bvars, pvars, mvars, evars, xvars, yvars, logs, bounces, complaints, suppression_list,
                   max_entries, transport, unsuppressed>>

\* send, lines 130-132: the transport, or Configuration
SendAcquire(s) ==
    /\ senders[s].pc = "acquire"
    /\ senders' = [senders EXCEPT ![s] =
          IF ~transport
          THEN [@ EXCEPT !.pc = "done",
                         !.result = <<"Configuration", "SMTP not configured">>]
          ELSE IF senders[s].msg.to = <<>>
          THEN [@ EXCEPT !.pc = "transport"]
          ELSE [@ EXCEPT !.pc = "log_queued", !.i = 1]]
    /\ UNCHANGED <<qvars, dvars, bvars, pvars, mvars, evars, xvars, yvars, logs, bounces, complaints, suppression_list,
                   max_entries, transport, unsuppressed>>

\* send, lines 135-137: log_queued for the next recipient of to
SendLogQueued(s) ==
    /\ senders[s].pc = "log_queued"
    /\ LET sd == senders[s]
           next == IF sd.i = Len(sd.msg.to)
                   THEN [sd EXCEPT !.pc = "transport", !.i = 1]
                   ELSE [sd EXCEPT !.i = sd.i + 1]
       IN  LogEffect([senders EXCEPT ![s] = next],
                     NewEntry(sd.msg.id, "Queued", sd.msg.to[sd.i], now))
    /\ UNCHANGED <<qvars, dvars, bvars, pvars, mvars, evars, xvars, yvars, max_entries, transport, unsuppressed>>

\* send, line 140: transport.send, which succeeds or fails with error
SendTransport(s, result) ==
    /\ senders[s].pc = "transport"
    /\ senders' = [senders EXCEPT ![s] =
          [@ EXCEPT !.transported = TRUE, !.result = result, !.i = 1,
                    !.pc = IF senders[s].msg.to = <<>> THEN "done" ELSE "log_result"]]
    /\ UNCHANGED <<qvars, dvars, bvars, pvars, mvars, evars, xvars, yvars, logs, bounces, complaints, suppression_list,
                   max_entries, transport, unsuppressed>>

\* send, lines 142-166: log_sent or log_failed for the next recipient of to
SendLogResult(s) ==
    /\ senders[s].pc = "log_result"
    /\ LET sd == senders[s]
           event == IF sd.result[1] = "Ok" THEN "Sent" ELSE "Failed"
           next == IF sd.i = Len(sd.msg.to)
                   THEN [sd EXCEPT !.pc = "done"]
                   ELSE [sd EXCEPT !.i = sd.i + 1]
       IN  LogEffect([senders EXCEPT ![s] = next],
                     NewEntry(sd.msg.id, event, sd.msg.to[sd.i], now))
    /\ UNCHANGED <<qvars, dvars, bvars, pvars, mvars, evars, xvars, yvars, max_entries, transport, unsuppressed>>

SendResults == {<<"Ok", NoText>>} \cup { <<"Smtp", e>> : e \in SmtpErrors }

RegistryInit ==
    /\ logs = <<>>
    /\ bounces = << >>
    /\ complaints = << >>
    /\ suppression_list = << >>
    /\ senders = [s \in Senders |-> IdleSender]
    /\ unsuppressed = {}

----------------------------------------------------------------------------
(* Spec: one admitting client, two workers racing through process_queue,   *)
(* and the operator's cancel / retry / set_priority / cleanup.             *)

Init ==
    /\ QueueInit
    /\ RegistryInit
    /\ max_entries = 1
    /\ transport = FALSE
    /\ max_size = MaxIds
    /\ retry_max_attempts \in PolicyAttempts

Next ==
    \/ AdmitCheck("c1", NoTime, MaxIds)
    \/ \E e \in QueueEmails : AdmitInsert("c1", e)
    \/ \E w \in Workers, n \in 0..MaxIds : GetPending(w, n)
    \/ \E w \in Workers : Claim(w)
    \/ \E w \in Workers : MarkSent(w)
    \/ \E w \in Workers, e \in ErrorTexts : MarkFailed(w, e)
    \/ \E id \in 1..MaxIds : Cancel(id)
    \/ \E id \in 1..MaxIds : Retry(id)
    \/ \E d \in Durations : Cleanup(d)
    \/ Tick(MaxTime)

Spec == Init /\ [][Next]_vars

----------------------------------------------------------------------------
(* The claim protocol, under Spec *)

\* the step in which worker w calls claim on the head of its batch
ClaimStep(w) == workers[w].pc = "loop" /\ workers'[w] # workers[w]

\* the step in which worker w reports the outcome of the item it holds
MarkStep(w) == workers[w].pc = "send" /\ workers'[w].pc # "send"

Claimable(id) ==
    id \in DOMAIN items /\ items[id].status \in {"Pending", "Deferred"}

\* C1: a claim on an item that is Pending or Deferred succeeds and sets
\* status = Processing, started_at = now, worker_id and attempts + 1, which
\* leaves the item not claimable; a claim on any other item fails (Invalid
\* for an item in the store) and changes no item.  So of several workers
\* claiming one item with nothing else in between, exactly one succeeds.
C1_ClaimIsAtomicCheckAndSet ==
    [][\A w \in Workers : ClaimStep(w) =>
          LET id == Head(workers[w].batch)
          IN  IF Claimable(id)
              THEN /\ workers'[w].pc = "send"
                   /\ workers'[w].cur = id
                   /\ items' = [items EXCEPT ![id] =
                         [@ EXCEPT !.status = "Processing", !.started_at = now,
                                   !.worker_id = WorkerId, !.attempts = @ + 1]]
                   /\ items'[id].status \notin {"Pending", "Deferred"}
              ELSE /\ workers'[w].pc # "send"
                   /\ items' = items
                   /\ (id \in DOMAIN items /\ workers'[w].pc = "loop") =>
                         workers'[w].errors =
                            Append(workers[w].errors, <<id, "Invalid operation">>)
    ]_vars

\* two workers had the same item in their batches; one holds it after its
\* claim (first attempt) and the other was refused
C1_Witness ==
    \E w1, w2 \in Workers :
        /\ w1 # w2
        /\ workers[w1].pc = "send" /\ workers[w1].cur \in DOMAIN items
        /\ items[workers[w1].cur].status = "Processing"
        /\ items[workers[w1].cur].attempts = 1
        /\ workers[w2].pc = "loop"
        /\ workers[w2].errors = << <<workers[w1].cur, "Invalid operation">> >>

\* C2: no two workers hold a successful claim on the same item at once
C2_OneClaimantPerItem ==
    \A w1, w2 \in Workers :
        (w1 # w2 /\ workers[w1].pc = "send" /\ workers[w2].pc = "send")
            => workers[w1].cur # workers[w2].cur

\* C3: attempts never exceeds max_attempts, and an item that has used up its
\* attempts is never Deferred
C3_AttemptsWithinCeiling ==
    \A id \in DOMAIN items :
        /\ items[id].attempts <= items[id].max_attempts
        /\ items[id].status = "Deferred" => items[id].attempts < items[id].max_attempts

\* C4: when an item was cancelled while a worker held it and is Cancelled,
\* the mark_sent / mark_failed of that worker leaves it Cancelled
C4_CancelledStaysCancelled ==
    [][\A w \in Workers :
          (/\ MarkStep(w) /\ workers[w].fenced
           /\ workers[w].cur \in DOMAIN items
           /\ items[workers[w].cur].status = "Cancelled")
          => items'[workers[w].cur].status = "Cancelled"
    ]_vars

\* C5: an item that is Sent stays Sent until cleanup removes it
C5_SentIsTerminal ==
    [][\A id \in DOMAIN items : items[id].status = "Sent" =>
          \/ id \in DOMAIN items' /\ items'[id].status = "Sent"
          \/ \E d \in Durations : id \in CleanupIds(items, now, d)
    ]_vars

----------------------------------------------------------------------------
(* SpecSelect: one client that enqueues and schedules, one worker, and the *)
(* operator's cancel / set_priority: the stores get_pending selects from.  *)

SelectInit ==
    /\ QueueInit
    /\ RegistryInit
    /\ max_entries = 1
    /\ transport = FALSE
    /\ max_size = SelectMaxIds
    /\ retry_max_attempts = 2

SelectNext ==
    \/ \E t \in {NoTime} \cup 0..SelectMaxTime : AdmitCheck("c1", t, SelectMaxIds)
    \/ \E e \in QueueEmails : AdmitInsert("c1", e)
    \/ \E n \in 0..SelectMaxIds : GetPending("w1", n)
    \/ Claim("w1")
    \/ MarkSent("w1")
    \/ \E e \in ErrorTexts : MarkFailed("w1", e)
    \/ \E id \in 1..SelectMaxIds : Cancel(id)
    \/ \E id \in 1..SelectMaxIds, p \in Priorities : SetPriority(id, p)
    \/ Tick(SelectMaxTime)

SpecSelect == SelectInit /\ [][SelectNext]_vars

----------------------------------------------------------------------------
(* get_pending, under SpecSelect *)

\* the step in which worker w takes its eligibility snapshot
GetPendingStep(w) == workers[w].pc = "idle" /\ workers'[w].pc # "idle"

\* C8: whatever the store, the time and the limit n, get_pending(n) returns
\* at most n items, each once, each Pending or Deferred with scheduled_at <=
\* now and next_retry_at absent or <= now; and taking the snapshot changes no
\* item of the store.
C8_SelectsOnlyEligible ==
    /\ [](\A n \in 0..SelectMaxIds : \A b \in get_pending(items, now, n) :
            /\ Len(b) <= n
            /\ \A i, j \in DOMAIN b : i # j => b[i] # b[j]
            /\ \A i \in DOMAIN b :
                  /\ b[i] \in DOMAIN items
                  /\ items[b[i]].status \in {"Pending", "Deferred"}
                  /\ items[b[i]].scheduled_at <= now
                  /\ items[b[i]].next_retry_at \in {NoTime} \cup 0..now)
    /\ [][\A w \in Workers : GetPendingStep(w) =>
             /\ items' = items
             /\ \E n \in 0..SelectMaxIds :
                   workers'[w].batch \in get_pending(items, now, n)]_vars

\* the worker took a snapshot cut to one item while the store holds that
\* item, eligible, next to an item scheduled for later
C8_Witness ==
    /\ workers["w1"].pc = "loop"
    /\ Len(workers["w1"].batch) = 1
    /\ workers["w1"].batch \in get_pending(items, now, 1)
    /\ \E id \in DOMAIN items : items[id].scheduled_at > now

\* C9: the result is ordered by priority descending, then scheduled_at
\* ascending, then id ascending, so that the store, the time and the limit
\* determine it
C9_DeterministicOrder ==
    \A n \in 0..SelectMaxIds :
        /\ Cardinality(get_pending(items, now, n)) = 1
        /\ \A b \in get_pending(items, now, n) : \A i, j \in DOMAIN b :
              i < j =>
                 \/ SortsBefore(items[b[i]], items[b[j]])
                 \/ /\ ~SortsBefore(items[b[j]], items[b[i]])
                    /\ b[i] < b[j]

----------------------------------------------------------------------------
(* SpecAdmit: two clients enqueue and schedule concurrently into a store   *)
(* of capacity 1 or 2, while the operator cancels and cleans up.           *)

AdmitInit ==
    /\ QueueInit
    /\ RegistryInit
    /\ max_entries = 1
    /\ transport = FALSE
    /\ max_size \in {1, 2}
    /\ retry_max_attempts = 2

AdmitNext ==
    \/ \E c \in Clients, t \in {NoTime} \cup 0..MaxTime : AdmitCheck(c, t, AdmitMaxIds)
    \/ \E c \in Clients, e \in QueueEmails : AdmitInsert(c, e)
    \/ \E id \in 1..AdmitMaxIds : Cancel(id)
    \/ \E d \in Durations : Cleanup(d)
    \/ Tick(MaxTime)

SpecAdmit == AdmitInit /\ [][AdmitNext]_vars

\* C10: the store never holds more than max_size items
C10_SizeWithinCapacity == Size(items) <= max_size

----------------------------------------------------------------------------
(* SpecReg: events are recorded for two spellings of one address, while    *)
(* the operator suppresses and unsuppresses it by hand.                    *)

RegMaxBounces == 3   \* bounces SpecReg records per address
RegAddresses == {"a@x.com", "A@x.com"}

RegInit ==
    /\ QueueInit
    /\ max_size = MaxIds
    /\ retry_max_attempts = 2
    /\ RegistryInit
    /\ max_entries = 1
    /\ transport = FALSE

RegNext ==
    \/ \E id \in EmailIds, e \in LogEvents, a \in RegAddresses :
          Log(id, e, a, RegMaxBounces)
    \/ \E a \in RegAddresses, r \in Reasons : AddToSuppression(a, r)
    \/ \E a \in RegAddresses : RemoveFromSuppression(a)

SpecReg == RegInit /\ [][RegNext]_vars

\* the records that call for suppression: a hard bounce record, a soft one
\* with three bounces or more, an abuse complaint
CallsForSuppression(a) ==
    \/ /\ a \in DOMAIN bounces
       /\ \/ bounces[a].bounce_type = "Hard"
          \/ bounces[a].bounce_type = "Soft" /\ bounces[a].bounce_count >= 3
    \/ /\ a \in DOMAIN complaints
       /\ complaints[a].complaint_type = "Abuse"

\* C7: as long as nobody has unsuppressed by hand, every address whose
\* records call for suppression is in the suppression list
C7_RecordsImplySuppression ==
    unsuppressed = {} =>
        \A a \in DOMAIN bounces \cup DOMAIN complaints :
            CallsForSuppression(a) => is_suppressed(suppression_list, a)

----------------------------------------------------------------------------
(* SpecSend: one caller of send, messages with up to one address in each   *)
(* of to, cc and bcc, a transport that is configured at some point, and    *)
(* the operator suppressing and unsuppressing meanwhile.                   *)

SendInit ==
    /\ QueueInit
    /\ max_size = MaxIds
    /\ retry_max_attempts = 2
    /\ RegistryInit
    /\ max_entries = 1
    /\ transport = FALSE

SendNext ==
    \/ \E s \in Senders, m \in Messages : SendBegin(s, m)
    \/ \E s \in Senders : SendCheck(s)
    \/ \E s \in Senders : SendAcquire(s)
    \/ \E s \in Senders : SendLogQueued(s)
    \/ \E s \in Senders, r \in SendResults : SendTransport(s, r)
    \/ \E s \in Senders : SendLogResult(s)
    \/ \E a \in Addresses, r \in Reasons : AddToSuppression(a, r)
    \/ \E a \in Addresses : RemoveFromSuppression(a)
    \/ ConfigureSmtp

SpecSend == SendInit /\ [][SendNext]_vars

\* the recipients of a message that are suppressed now
SuppressedRecipients(msg) ==
    { a \in Addresses :
        /\ \E l \in {msg.to, msg.cc, msg.bcc} : \E k \in 1..Len(l) : l[k] = a
        /\ Lower(a) \in DOMAIN suppression_list }

\* C6: a call of send on a message with a suppressed recipient (the
\* suppression list unchanged since the call began) never gets past the
\* suppression check, never reaches transport.send, and returns
\* Suppressed(a) for a suppressed recipient a of the message
C6_SuppressedNeverReachesTransport ==
    \A s \in Senders :
        LET sd == senders[s]
        IN  (sd.pc # "idle" /\ sd.quiet /\ SuppressedRecipients(sd.msg) # {}) =>
                /\ ~sd.transported
                /\ sd.pc \in {"check", "done"}
                /\ sd.pc = "done" =>
                      /\ sd.result[1] = "Suppressed"
                      /\ sd.result[2] \in SuppressedRecipients(sd.msg)

\* the check let the to recipient through and stopped at the bcc recipient,
\* spelled in upper case, with a transport configured
C6_Witness ==
    \E s \in Senders :
        /\ senders[s].pc = "done"
        /\ senders[s].quiet
        /\ transport
        /\ senders[s].msg.to = <<"b@x.com">>
        /\ senders[s].msg.bcc = <<"A@x.com">>
        /\ senders[s].result = <<"Suppressed", "A@x.com">>
        /\ ~senders[s].transported

----------------------------------------------------------------------------
(* SpecRetry: one item with a ceiling of 1, 2 or 3 attempts, and a caller  *)
(* that claims it and reports a failure, again and again, as time passes.  *)

RetryMaxIds == 1     \* ids SpecRetry hands out
RetryMaxTime == 2    \* the clock of SpecRetry stops here
RetryCeilings == {1, 2, 3}

RetryInit ==
    /\ QueueInit
    /\ max_size = RetryMaxIds
    /\ retry_max_attempts \in RetryCeilings
    /\ RegistryInit
    /\ max_entries = 1
    /\ transport = FALSE

RetryNext ==
    \/ AdmitCheck("c1", NoTime, RetryMaxIds)
    \/ \E e \in QueueEmails : AdmitInsert("c1", e)
    \/ \E id \in 1..RetryMaxIds : DriverClaim(id)
    \/ \E e \in ErrorTexts : DriverFail(e)
    \/ Tick(RetryMaxTime)

SpecRetry == RetryInit /\ [][RetryNext]_vars

\* the step in which the caller reports a failure
DriverFailStep == driver.pc = "fail" /\ driver'.pc = "claim"

\* C11: the k-th failure of an item with ceiling m >= 1 leaves it Deferred
\* with attempts = k and next_retry_at later than now when k < m, and
\* Failed with completed_at set when k = m; no item is Failed before its
\* m-th failure
C11_DeferredUntilCeiling ==
    /\ [](\A id \in DOMAIN items :
             items[id].status = "Failed" => FailuresOf(id) >= items[id].max_attempts)
    /\ [][DriverFailStep =>
            LET id == driver.id
                k == FailuresOf(id) + 1
                m == items[id].max_attempts
                after == items'[id]
            IN  /\ k <= m
                /\ after.attempts = k
                /\ after.last_error \in ErrorTexts
                /\ k < m => /\ after.status = "Deferred"
                            /\ after.next_retry_at > now
                            /\ after.completed_at = NoTime
                /\ k = m => /\ after.status = "Failed"
                            /\ after.completed_at = now
         ]_vars

\* the third failure of an item with ceiling 3 has made it Failed
C11_Witness ==
    \E id \in DOMAIN items :
        /\ items[id].max_attempts = 3
        /\ FailuresOf(id) = 3
        /\ items[id].status = "Failed"
        /\ items[id].attempts = 3

----------------------------------------------------------------------------
(* The suppression list as a set of entries, under SpecReg *)

SuppressionReasons == {"HardBounce", "SpamComplaint", "Unsubscribed", "Manual"}

\* the entries a suppression list holds for the address email
EntriesFor(list, email) == { k \in DOMAIN list : Lower(k) = Lower(email) }

\* C12: from every suppression list the registry reaches, suppressing x
\* twice gives what suppressing it once gives, with exactly one entry for
\* x; unsuppressing x then leaves x not suppressed; and unsuppressing an
\* address that is not suppressed changes nothing
C12_SuppressionIdempotent ==
    \A x \in RegAddresses, r \in SuppressionReasons :
        LET once == add_to_suppression(suppression_list, x, r)
            twice == add_to_suppression(once, x, r)
            off == remove_from_suppression(twice, x)
        IN  /\ twice = once
            /\ Cardinality(EntriesFor(twice, x)) = 1
            /\ Cardinality(EntriesFor(suppression_list, x)) <= 1
            /\ ~is_suppressed(off, x)
            /\ EntriesFor(off, x) = {}
            /\ ~is_suppressed(suppression_list, x) =>
                   remove_from_suppression(suppression_list, x) = suppression_list

\* the address was unsuppressed and then suppressed again by hand: the
\* list holds one entry
C12_Witness ==
    /\ "a@x.com" \in unsuppressed
    /\ DOMAIN suppression_list = {"a@x.com"}
    /\ suppression_list["a@x.com"] = "Manual"
    /\ "a@x.com" \in DOMAIN bounces

----------------------------------------------------------------------------
(* Letter case of address keys, under SpecReg *)

\* two spellings of one address
SameAddress(a, b) == a # b /\ Lower(a) = Lower(b)

BounceEvents == {"Bounced", "SoftBounce", "HardBounce"}

\* C13: for two spellings a, b of one address, from every registry state
\* reached: suppress(a) makes is_suppressed(b) true; unsuppress(b) undoes
\* suppress(a); the accessors answer the same for a and b; a bounce or
\* complaint event for a and the same event for b update the registry
\* alike, and each map holds at most one record for the address
C13_KeysIgnoreCase ==
    \A a \in RegAddresses, b \in RegAddresses :
        SameAddress(a, b) =>
            /\ \A r \in SuppressionReasons :
                  LET on == add_to_suppression(suppression_list, a, r)
                  IN  /\ is_suppressed(on, b)
                      /\ get_suppression_reason(on, b) = r
                      /\ ~is_suppressed(remove_from_suppression(on, b), a)
                      /\ remove_from_suppression(on, b) =
                            remove_from_suppression(suppression_list, a)
            /\ is_suppressed(suppression_list, a) = is_suppressed(suppression_list, b)
            /\ get_bounce(bounces, a) = get_bounce(bounces, b)
            /\ get_complaint(complaints, a) = get_complaint(complaints, b)
            /\ \A e \in BounceEvents \cup {"SpamComplaint", "Unsubscribed"} :
                  HandleSpecial(Registry, NewEntry(1, e, a, now)) =
                      HandleSpecial(Registry, NewEntry(1, e, b, now))
            /\ Cardinality(EntriesFor(bounces, a)) <= 1
            /\ Cardinality(EntriesFor(complaints, a)) <= 1
            /\ Cardinality(EntriesFor(suppression_list, a)) <= 1

\* a soft bounce reported for the upper-case spelling has brought the one
\* record, kept under the lower-case key, to two bounces
C13_Witness ==
    /\ DOMAIN bounces = {"a@x.com"}
    /\ bounces["a@x.com"].bounce_count = 2
    /\ logs # <<>>
    /\ logs[Len(logs)].recipient = "A@x.com"
    /\ logs[Len(logs)].event = "SoftBounce"

----------------------------------------------------------------------------
(* The suppressed flag of bounce records, under SpecReg *)

\* C14: every bounce record that is hard, or soft with three bounces or
\* more, has its suppressed flag set
C14_FlagFollowsClassification ==
    \A a \in DOMAIN bounces :
        (\/ bounces[a].bounce_type = "Hard"
         \/ bounces[a].bounce_type = "Soft" /\ bounces[a].bounce_count >= 3)
            => bounces[a].suppressed

----------------------------------------------------------------------------
(* LogService::log lock by lock.  A caller of log waits for the logs write *)
(* lock and keeps it to the end; record_bounce takes the bounces write     *)
(* lock, finds the record, stores the updated one and, for a hard bounce,  *)
(* takes the suppression_list write lock inside add_to_suppression.        *)

\* the callers that hold the logs lock, and those that hold the bounces lock
LogsHolders == { p \in Reporters : reporters[p].pc \notin {"idle", "waiting"} }
BouncesHolders == { p \in Reporters : reporters[p].pc \in {"read", "suppress"} }

\* a lock that excludes nobody
WriteLockNeverHeld(holders) == TRUE

\* RwLock::write() is granted when nobody holds the lock
WriteLockFree(holders) == holders = {}

RecordedFor(email) == IF email \in DOMAIN recorded THEN recorded[email] ELSE 0

\* the bounce events for an address that are recorded or under way
UnderWay(email) ==
    RecordedFor(email) +
    Cardinality({ p \in Reporters :
                    /\ reporters[p].pc \in {"waiting", "locked", "read"}
                    /\ Lower(reporters[p].entry.recipient) = email })

\* log(entry) is called: the caller waits for logs.write()
ReportCall(p, email_id, event, recipient, max_bounces) ==
    /\ reporters[p].pc = "idle"
    /\ UnderWay(Lower(recipient)) < max_bounces
    /\ reporters' = [reporters EXCEPT ![p] =
          [IdleReporter EXCEPT !.pc = "waiting",
                               !.entry = NewEntry(email_id, event, recipient, now)]]
    /\ UNCHANGED <<qvars, rvars, dvars, bvars, mvars, evars, xvars, yvars, recorded>>

\* log, line 63: the logs write lock
ReportLock(p) ==
    /\ reporters[p].pc = "waiting"
    /\ WriteLockFree(LogsHolders)
    /\ reporters' = [reporters EXCEPT ![p].pc = "locked"]
    /\ UNCHANGED <<qvars, rvars, dvars, bvars, mvars, evars, xvars, yvars, recorded>>

\* record_bounce, lines 251-253: the bounces write lock and get_mut
ReportRead(p) ==
    /\ reporters[p].pc = "locked"
    /\ WriteLockFree(BouncesHolders)
    /\ reporters' = [reporters EXCEPT ![p] =
          [@ EXCEPT !.pc = "read",
                    !.found = Found(bounces, Lower(reporters[p].entry.recipient))]]
    /\ UNCHANGED <<qvars, rvars, dvars, bvars, mvars, evars, xvars, yvars, recorded>>

\* record_bounce, lines 253-263: the record is updated in place, or inserted
ReportWrite(p) ==
    /\ reporters[p].pc = "read"
    /\ LET email == Lower(reporters[p].entry.recipient)
           bounce_type == BounceTypeOf(reporters[p].entry.event)
       IN  /\ bounces' = Put(bounces, email,
                             BouncedRecord(reporters[p].found, bounce_type))
           /\ recorded' = Put(recorded, email, RecordedFor(email) + 1)
           /\ reporters' = [reporters EXCEPT ![p].pc =
                 IF bounce_type = "Hard" THEN "suppress" ELSE "push"]
    /\ UNCHANGED <<qvars, dvars, bvars, mvars, evars, xvars, yvars, logs, complaints, suppression_list, max_entries,
                   transport, senders, unsuppressed>>

\* record_bounce, lines 266-268: add_to_suppression for a hard bounce
ReportSuppress(p) ==
    /\ reporters[p].pc = "suppress"
    /\ suppression_list' = add_to_suppression(suppression_list,
                               Lower(reporters[p].entry.recipient), "HardBounce")
    /\ senders' = Noting(senders, suppression_list')
    /\ reporters' = [reporters EXCEPT ![p].pc = "push"]
    /\ UNCHANGED <<qvars, dvars, bvars, mvars, evars, xvars, yvars, logs, bounces, complaints, max_entries, transport,
                   unsuppressed, recorded>>

\* log, lines 79-85: push and trim; the locks are released on return
ReportPush(p) ==
    /\ reporters[p].pc = "push"
    /\ logs' = PushTrim(logs, reporters[p].entry, max_entries)
    /\ reporters' = [reporters EXCEPT ![p] = IdleReporter]
    /\ UNCHANGED <<qvars, dvars, bvars, mvars, evars, xvars, yvars, bounces, complaints, suppression_list,
                   max_entries, transport, senders, unsuppressed, recorded>>

----------------------------------------------------------------------------
(* SpecReport: two callers report soft and hard bounces for one address    *)
(* concurrently, while the operator unsuppresses it by hand.               *)

ReportMaxBounces == 3    \* bounce events SpecReport reports per address

ReportInit ==
    /\ QueueInit
    /\ max_size = MaxIds
    /\ retry_max_attempts = 2
    /\ RegistryInit
    /\ max_entries = 1
    /\ transport = FALSE

ReportNext ==
    \/ \E p \in Reporters, id \in EmailIds, e \in {"SoftBounce", "HardBounce"},
          a \in RegAddresses : ReportCall(p, id, e, a, ReportMaxBounces)
    \/ \E p \in Reporters : ReportLock(p)
    \/ \E p \in Reporters : ReportRead(p)
    \/ \E p \in Reporters : ReportWrite(p)
    \/ \E p \in Reporters : ReportSuppress(p)
    \/ \E p \in Reporters : ReportPush(p)
    \/ \E a \in RegAddresses : RemoveFromSuppression(a)

SpecReport == ReportInit /\ [][ReportNext]_vars

\* C15: whatever the interleaving, the record of an address counts every
\* bounce event recorded for it; at most one caller is between finding a
\* record and storing it; and the record it found is still the stored one
C15_NoLostBounce ==
    /\ \A a \in DOMAIN recorded \cup DOMAIN bounces :
          /\ a \in DOMAIN bounces
          /\ bounces[a].bounce_count = RecordedFor(a)
          /\ (bounces[a].bounce_type = "Soft" /\ bounces[a].bounce_count >= 3)
                => bounces[a].suppressed
    /\ Cardinality({ p \in Reporters : reporters[p].pc = "read" }) <= 1
    /\ \A p \in Reporters :
          reporters[p].pc = "read" =>
              reporters[p].found = Found(bounces, Lower(reporters[p].entry.recipient))

\* one caller has found the record of one earlier bounce and is about to
\* store the second, while the other caller waits with a third bounce for
\* the same address
C15_Witness ==
    /\ reporters["p1"].pc = "read"
    /\ reporters["p1"].found # <<>>
    /\ reporters["p2"].pc = "waiting"
    /\ Lower(reporters["p1"].entry.recipient) = Lower(reporters["p2"].entry.recipient)
    /\ RecordedFor("a@x.com") = 1

----------------------------------------------------------------------------
(* SpecStats: events of every counted kind are logged for one address into *)
(* a log of two entries while one item is queued, processed and cancelled; *)
(* the statistics are taken in every state and for every window.           *)

StatsMaxIds == 1      \* ids SpecStats hands out
StatsMaxTime == 1     \* the clock of SpecStats stops here
StatsMaxBounces == 2  \* bounces SpecStats records per address
StatsEvents ==
    {"Sent", "Delivered", "Bounced", "Opened", "Clicked", "SpamComplaint"}

StatsInit ==
    /\ QueueInit
    /\ max_size = StatsMaxIds
    /\ retry_max_attempts = 1
    /\ RegistryInit
    /\ max_entries = 2
    /\ transport = FALSE

StatsNext ==
    \/ AdmitCheck("c1", NoTime, StatsMaxIds)
    \/ \E e \in QueueEmails : AdmitInsert("c1", e)
    \/ GetPending("w1", 1)
    \/ Claim("w1")
    \/ MarkSent("w1")
    \/ \E e \in ErrorTexts : MarkFailed("w1", e)
    \/ \E id \in 1..StatsMaxIds : Cancel(id)
    \/ \E id \in EmailIds, e \in StatsEvents : Log(id, e, "a@x.com", StatsMaxBounces)
    \/ Tick(StatsMaxTime)

SpecStats == StatsInit /\ [][StatsNext]_vars

\* the window bounds asked for: none (the default), or a time of the model
Windows == {NoTime} \cup 0..(StatsMaxTime + 1)

IsZero(rate) == rate[1] = 0

\* C16: every rate is a number (its denominator is not 0), and is 0 when
\* its own denominator count is 0: delivery, bounce and spam rate with
\* nothing sent, open rate with nothing delivered, click rate with nothing
\* opened, all five on a window without events; the queue's success rate
\* is 0 when nothing was sent or failed
C16_RatesZeroOnZeroDenominator ==
    /\ \A from \in Windows, to \in Windows :
          LET st == log_stats(logs, from, to, now)
              rates == {st.delivery_rate, st.bounce_rate, st.spam_rate,
                        st.open_rate, st.click_rate}
          IN  /\ \A r \in rates : r[2] # 0
              /\ st.total_sent = 0 =>
                    /\ IsZero(st.delivery_rate)
                    /\ IsZero(st.bounce_rate)
                    /\ IsZero(st.spam_rate)
              /\ st.total_delivered = 0 => IsZero(st.open_rate)
              /\ st.total_opened = 0 => IsZero(st.click_rate)
              /\ CountEvents(logs, StatsEvents, 
                             IF from = NoTime THEN now - ThirtyDays ELSE from,
                             IF to = NoTime THEN now ELSE to) = 0
                    => \A r \in rates : IsZero(r)
    /\ LET q == queue_stats(items, now)
       IN  /\ q.success_rate[2] # 0
           /\ q.sent + q.failed = 0 => IsZero(q.success_rate)

\* the log holds an open and a click but nothing sent or delivered, and the
\* one item of the queue was cancelled: numerators without denominators
C16_Witness ==
    /\ Len(logs) = 2
    /\ logs[1].event = "Opened"
    /\ logs[2].event = "Clicked"
    /\ log_stats(logs, NoTime, NoTime, now).total_clicked = 1
    /\ log_stats(logs, NoTime, NoTime, now).click_rate = Rate(1, 1)
    /\ IsZero(log_stats(logs, NoTime, NoTime, now).open_rate)
    /\ \E id \in DOMAIN items : items[id].status = "Cancelled"
    /\ queue_stats(items, now).success_rate = ZeroRate

----------------------------------------------------------------------------
(* MailerService::process_queue with send in full: the call of send made   *)
(* for a claimed item runs as the sender SenderOf(b), step by step.        *)

SenderOf(b) == "s1"

\* MailerError's Display, for the errors send returns
ErrorString(result) ==
    IF result[1] = "Suppressed"
    THEN IF result[2] = "a@x.com" THEN "Recipient suppressed: a@x.com"
         ELSE IF result[2] = "A@x.com" THEN "Recipient suppressed: A@x.com"
         ELSE "Recipient suppressed: b@x.com"
    ELSE IF result[1] = "Configuration"
    THEN "Configuration error: SMTP not configured"
    ELSE "SMTP error: Connection error: Not connected"

\* process_queue goes on to the next item of its batch, or returns
NextItem(bt) ==
    [bt EXCEPT !.pc = IF bt.batch = <<>> THEN "done" ELSE "loop", !.cur = NoId]

\* a failure that pushes its error without counting it
AfterFailureUncounted(bt, id, text) ==
    NextItem([bt EXCEPT !.errors = Append(@, <<id, text>>)])

\* process_queue, lines 264-266 and 278-279: a failure is pushed and counted
AfterFailure(bt, id, text) ==
    NextItem([bt EXCEPT !.errors = Append(@, <<id, text>>), !.failed = @ + 1])

\* process_queue, lines 253-257: the batch is selected
BatchBegin(b, limit) ==
    /\ batchers[b].pc \in {"idle", "done"}
    /\ \E batch \in get_pending(items, now, limit) :
          batchers' = [batchers EXCEPT ![b] =
              NextItem([IdleBatcher EXCEPT !.batch = batch, !.selected = batch])]
    /\ UNCHANGED <<qvars, rvars, dvars, pvars, mvars, evars, xvars, yvars>>

\* process_queue, lines 259-271: claim the next item; a refused claim is
\* pushed and counted, a granted one is followed by send(claimed.email)
BatchClaim(b) ==
    /\ batchers[b].pc = "loop"
    /\ LET bt == batchers[b]
           id == Head(bt.batch)
           rest == [bt EXCEPT !.batch = Tail(bt.batch)]
           result == ClaimResult(items, id)
       IN  /\ items' = claim(items, id, WorkerId, now)
           /\ IF result = "Ok"
              THEN /\ batchers' = [batchers EXCEPT ![b] =
                          [rest EXCEPT !.pc = "sending", !.cur = id]]
                   /\ senders' = [senders EXCEPT ![SenderOf(b)] =
                          [IdleSender EXCEPT !.msg = items[id].email, !.i = 1,
                              !.pc = IF Recipients(items[id].email) = <<>>
                                     THEN "acquire" ELSE "check"]]
              ELSE /\ batchers' = [batchers EXCEPT ![b] =
                          AfterFailure(rest, id, ErrorText(result))]
                   /\ UNCHANGED senders
    /\ UNCHANGED <<now, next_id, max_size, retry_max_attempts, clients, workers,
                   logs, bounces, complaints, suppression_list, max_entries,
                   transport, unsuppressed, dvars, pvars, mvars, evars, xvars, yvars>>

\* process_queue, lines 271-281: send has returned; mark_sent and count, or
\* mark_failed with the error's text, push and count
BatchMark(b) ==
    /\ batchers[b].pc = "sending"
    /\ senders[SenderOf(b)].pc = "done"
    /\ LET bt == batchers[b]
           result == senders[SenderOf(b)].result
       IN  IF result[1] = "Ok"
           THEN /\ items' = svc_mark_sent(items, bt.cur, now)
                /\ batchers' = [batchers EXCEPT ![b] =
                       NextItem([bt EXCEPT !.sent = @ + 1])]
           ELSE /\ items' = svc_mark_failed(items, bt.cur, ErrorString(result), now)
                /\ batchers' = [batchers EXCEPT ![b] =
                       AfterFailure(bt, bt.cur, ErrorString(result))]
    /\ UNCHANGED <<now, next_id, max_size, retry_max_attempts, clients, workers,
                   rvars, dvars, pvars, mvars, evars, xvars, yvars>>

----------------------------------------------------------------------------
(* SpecBatch: one client queues messages to b@x.com, with or without a bcc *)
(* to A@x.com; one caller runs process_queue again and again; meanwhile    *)
(* the operator configures the transport, suppresses a@x.com and cancels   *)
(* items.                                                                  *)

BatchMaxIds == 2     \* ids SpecBatch hands out
BatchMessages ==
    { [id |-> 1, to |-> <<"b@x.com">>, cc |-> <<>>, bcc |-> bcc] :
        bcc \in {<<>>, <<"A@x.com">>} }

BatchInit ==
    /\ QueueInit
    /\ max_size = BatchMaxIds
    /\ retry_max_attempts = 2
    /\ RegistryInit
    /\ max_entries = 1
    /\ transport = FALSE

BatchNext ==
    \/ AdmitCheck("c1", NoTime, BatchMaxIds)
    \/ \E m \in BatchMessages : AdmitInsert("c1", m)
    \/ \E b \in Batchers, n \in 0..BatchMaxIds : BatchBegin(b, n)
    \/ \E b \in Batchers : BatchClaim(b)
    \/ \E b \in Batchers : BatchMark(b)
    \/ \E s \in Senders : SendCheck(s)
    \/ \E s \in Senders : SendAcquire(s)
    \/ \E s \in Senders : SendLogQueued(s)
    \/ \E s \in Senders, r \in SendResults : SendTransport(s, r)
    \/ \E s \in Senders : SendLogResult(s)
    \/ \E r \in Reasons : AddToSuppression("a@x.com", r)
    \/ ConfigureSmtp
    \/ \E id \in 1..BatchMaxIds : Cancel(id)

SpecBatch == BatchInit /\ [][BatchNext]_vars

\* the steps of process_queue: a claim, and the marking after send
BatchClaimStep(b) == batchers[b].pc = "loop" /\ batchers'[b] # batchers[b]
BatchMarkStep(b) == batchers[b].pc = "sending" /\ batchers'[b].pc # "sending"

\* C17: process_queue handles every selected item and returns: a refused
\* claim is pushed and counted and the store left alone; after send it
\* calls mark_sent and counts the item as sent, or calls mark_failed with
\* the error's text, whatever the error, and pushes (id, text) and counts
\* the item as failed; throughout, sent + failed + the items still to come
\* = the number selected, and errors holds one pair per counted failure
C17_BatchAccountsForEveryItem ==
    /\ [](\A b \in Batchers :
            LET bt == batchers[b]
            IN  /\ bt.pc \in {"idle", "loop", "sending", "done"}
                /\ bt.sent + bt.failed + Len(bt.batch)
                     + (IF bt.pc = "sending" THEN 1 ELSE 0) = Len(bt.selected)
                /\ bt.pc = "done" => bt.sent + bt.failed = Len(bt.selected)
                /\ Len(bt.errors) = bt.failed
                /\ \A i \in DOMAIN bt.errors :
                      \E j \in DOMAIN bt.selected : bt.errors[i][1] = bt.selected[j])
    /\ [][\A b \in Batchers :
            LET bt == batchers[b]
                result == senders[SenderOf(b)].result
                text == ErrorString(result)
            IN  /\ (BatchClaimStep(b) /\ batchers'[b].pc # "sending") =>
                      /\ items' = items
                      /\ batchers'[b].sent = bt.sent
                      /\ batchers'[b].failed = bt.failed + 1
                      /\ Len(batchers'[b].errors) = Len(bt.errors) + 1
                /\ (BatchMarkStep(b) /\ result[1] = "Ok") =>
                      /\ items' = svc_mark_sent(items, bt.cur, now)
                      /\ batchers'[b].sent = bt.sent + 1
                      /\ batchers'[b].failed = bt.failed
                      /\ batchers'[b].errors = bt.errors
                /\ (BatchMarkStep(b) /\ result[1] # "Ok") =>
                      /\ items' = svc_mark_failed(items, bt.cur, text, now)
                      /\ batchers'[b].sent = bt.sent
                      /\ batchers'[b].failed = bt.failed + 1
                      /\ batchers'[b].errors = Append(bt.errors, <<bt.cur, text>>)
         ]_vars

\* a run over two items has returned with one sent and one failed, the
\* failure being the suppressed bcc recipient
C17_Witness ==
    \E b \in Batchers :
        /\ batchers[b].pc = "done"
        /\ Len(batchers[b].selected) = 2
        /\ batchers[b].sent = 1
        /\ batchers[b].failed = 1
        /\ batchers[b].errors[1][2] = "Recipient suppressed: A@x.com"

----------------------------------------------------------------------------
(* SpecSuppressed: one client queues a message to b@x.com with a bcc to    *)
(* A@x.com; a@x.com gets suppressed at some moment and stays so; one       *)
(* caller runs process_queue again and again while time passes.            *)

SuppMaxIds == 1      \* ids SpecSuppressed hands out
SuppMaxTime == 2     \* the back-off after the first attempt is 2 units
SuppCeilings == {1, 2}
SuppMessages == { [id |-> 1, to |-> <<"b@x.com">>, cc |-> <<>>, bcc |-> <<"A@x.com">>] }

SuppInit ==
    /\ QueueInit
    /\ max_size = SuppMaxIds
    /\ retry_max_attempts \in SuppCeilings
    /\ RegistryInit
    /\ max_entries = 1
    /\ transport = FALSE

SuppNext ==
    \/ AdmitCheck("c1", NoTime, SuppMaxIds)
    \/ \E m \in SuppMessages : AdmitInsert("c1", m)
    \/ \E b \in Batchers, n \in 0..SuppMaxIds : BatchBegin(b, n)
    \/ \E b \in Batchers : BatchClaim(b)
    \/ \E b \in Batchers : BatchMark(b)
    \/ \E s \in Senders : SendCheck(s)
    \/ \E s \in Senders : SendAcquire(s)
    \/ \E s \in Senders : SendLogQueued(s)
    \/ \E s \in Senders, r \in SendResults : SendTransport(s, r)
    \/ \E s \in Senders : SendLogResult(s)
    \/ \E r \in Reasons : AddToSuppression("a@x.com", r)
    \/ ConfigureSmtp
    \/ Tick(SuppMaxTime)

SpecSuppressed == SuppInit /\ [][SuppNext]_vars

\* C18: while a recipient of a queued item is suppressed, a run of
\* process_queue that claims the item uses up one attempt, its send returns
\* Suppressed without reaching transport.send, and the item is deferred
\* with its back-off while attempts remain and Failed at the ceiling, the
\* error's text recorded; the run never leaves it Sent or Cancelled, and
\* an item is Failed exactly when it has used max_attempts attempts
C18_SuppressedItemExhaustsAttempts ==
    /\ [](\A id \in DOMAIN items :
            /\ items[id].attempts <= items[id].max_attempts
            /\ items[id].status = "Failed" =>
                  items[id].attempts = items[id].max_attempts
            /\ items[id].status = "Deferred" =>
                  items[id].attempts < items[id].max_attempts
            /\ items[id].status # "Cancelled")
    /\ [][\A b \in Batchers :
            LET bt == batchers[b]
                sd == senders[SenderOf(b)]
            IN  /\ (BatchClaimStep(b) /\ batchers'[b].pc = "sending") =>
                      LET id == Head(bt.batch)
                      IN  /\ items'[id].attempts = items[id].attempts + 1
                          /\ items'[id].status = "Processing"
                /\ (BatchMarkStep(b) /\ sd.quiet /\ SuppressedRecipients(sd.msg) # {}) =>
                      LET before == items[bt.cur]
                          after == items'[bt.cur]
                      IN  /\ ~sd.transported
                          /\ sd.result[1] = "Suppressed"
                          /\ sd.result[2] \in SuppressedRecipients(sd.msg)
                          /\ after.attempts = before.attempts
                          /\ after.last_error = ErrorString(sd.result)
                          /\ after.status \notin {"Sent", "Cancelled"}
                          /\ before.attempts < before.max_attempts =>
                                /\ after.status = "Deferred"
                                /\ after.next_retry_at = now + BackoffDelay(before.attempts)
                          /\ before.attempts >= before.max_attempts =>
                                /\ after.status = "Failed"
                                /\ after.completed_at = now
         ]_vars

\* with a ceiling of two, two runs two units apart have both stopped at the
\* suppressed bcc recipient: the item is Failed, nothing was ever logged
\* because no call of send got as far as the transport
C18_Witness ==
    /\ now = 2
    /\ logs = <<>>
    /\ \E id \in DOMAIN items :
          /\ items[id].status = "Failed"
          /\ items[id].max_attempts = 2
          /\ items[id].attempts = 2
          /\ items[id].last_error = "Recipient suppressed: A@x.com"
    /\ \A s \in Senders : ~senders[s].transported

----------------------------------------------------------------------------
(* MailerService::send_template_bulk, with deliver, queue_email and send   *)
(* in full: one step per lock taken.                                       *)

BulkSenderOf(k) == "s1"

\* build_email(rendered, from, to): one recipient, in to
BulkMessage(r) == [id |-> 1, to |-> <<r.email>>, cc |-> <<>>, bcc |-> <<>>]

\* send_template_bulk, lines 245-248: the result is pushed, and the loop
\* goes on to the next recipient or the Vec is returned
Pushed(bk, result) ==
    [bk EXCEPT !.results = Append(@, result), !.rest = Tail(@),
               !.pc = IF Tail(bk.rest) = <<>> THEN "done" ELSE "render"]

\* configure, lines 90-93: the write lock waits for the calls of deliver,
\* which hold the read lock until they return
Configure(c) ==
    /\ \A k \in Bulkers : bulkers[k].pc \in {"idle", "render", "deliver", "done"}
    /\ config' = c
    /\ UNCHANGED <<qvars, rvars, dvars, pvars, bvars, bulkers, evars, xvars, yvars>>

\* send_template_bulk, lines 225-236: without a default_from a Vec of one
\* Configuration error is returned, whatever the recipients
BulkBegin(k, known, recipients) ==
    /\ bulkers[k].pc \in {"idle", "done"}
    /\ bulkers' = [bulkers EXCEPT ![k] =
          IF ~config.default_from
          THEN [IdleBulker EXCEPT !.pc = "done", !.known = known, !.input = recipients,
                   !.results = << <<"Configuration", "Default from address not set">> >>]
          ELSE [IdleBulker EXCEPT !.known = known, !.input = recipients,
                   !.rest = recipients,
                   !.pc = IF recipients = <<>> THEN "done" ELSE "render"]]
    /\ UNCHANGED <<qvars, rvars, dvars, pvars, bvars, config, evars, xvars, yvars>>

\* lines 240-241: render_by_slug fails with NotFound or MissingVariable
BulkRender(k) ==
    /\ bulkers[k].pc = "render"
    /\ LET bk == bulkers[k]
       IN  bulkers' = [bulkers EXCEPT ![k] =
              IF ~bk.known THEN Pushed(bk, <<"Template", "NotFound">>)
              ELSE IF ~Head(bk.rest).complete
              THEN Pushed(bk, <<"Template", "MissingVariable">>)
              ELSE [bk EXCEPT !.pc = "deliver"]]
    /\ UNCHANGED <<qvars, rvars, dvars, pvars, bvars, config, evars, xvars, yvars>>

\* deliver, lines 190-197: queue_email or send, by queue_by_default
BulkDeliver(k) ==
    /\ bulkers[k].pc = "deliver"
    /\ ~config.queue_by_default => senders[BulkSenderOf(k)].pc \in {"idle", "done"}
    /\ IF config.queue_by_default
       THEN /\ bulkers' = [bulkers EXCEPT ![k].pc = "q_check"]
            /\ UNCHANGED senders
       ELSE LET msg == BulkMessage(Head(bulkers[k].rest))
            IN  /\ bulkers' = [bulkers EXCEPT ![k].pc = "sending"]
                /\ senders' = [senders EXCEPT ![BulkSenderOf(k)] =
                       [IdleSender EXCEPT !.msg = msg, !.i = 1, !.pc = "check"]]
    /\ UNCHANGED <<qvars, dvars, pvars, bvars, config, evars, xvars, yvars, logs, bounces, complaints,
                   suppression_list, max_entries, transport, unsuppressed>>

\* queue_email, lines 172-176: the suppression check on the one recipient
BulkQueueCheck(k) ==
    /\ bulkers[k].pc = "q_check"
    /\ LET bk == bulkers[k]
           to == Head(bk.rest).email
       IN  bulkers' = [bulkers EXCEPT ![k] =
              IF is_suppressed(suppression_list, to)
              THEN Pushed(bk, <<"Suppressed", to>>)
              ELSE [bk EXCEPT !.pc = "q_admit"]]
    /\ UNCHANGED <<qvars, rvars, dvars, pvars, bvars, config, evars, xvars, yvars>>

\* enqueue, lines 56-60: the capacity check under the read lock
BulkAdmit(k) ==
    /\ bulkers[k].pc = "q_admit"
    /\ LET bk == bulkers[k]
       IN  bulkers' = [bulkers EXCEPT ![k] =
              IF Size(items) >= max_size
              THEN Pushed(bk, <<"Queue", "Queue full">>)
              ELSE [bk EXCEPT !.pc = "q_insert"]]
    /\ UNCHANGED <<qvars, rvars, dvars, pvars, bvars, config, evars, xvars, yvars>>

\* enqueue, lines 62-68: the insert under the write lock
BulkInsert(k) ==
    /\ bulkers[k].pc = "q_insert"
    /\ items' = [id \in DOMAIN items \cup {next_id} |->
                    IF id = next_id
                    THEN NewItem(BulkMessage(Head(bulkers[k].rest)), now, now,
                                 retry_max_attempts)
                    ELSE items[id]]
    /\ next_id' = next_id + 1
    /\ bulkers' = [bulkers EXCEPT ![k].pc = "q_log"]
    /\ UNCHANGED <<now, max_size, retry_max_attempts, clients, workers,
                   rvars, dvars, pvars, bvars, config, evars, xvars, yvars>>

\* queue_email, lines 181-183: log_queued for the recipient, then Ok
BulkLogQueued(k) ==
    /\ bulkers[k].pc = "q_log"
    /\ LET bk == bulkers[k]
       IN  /\ LogEffect(senders, NewEntry(1, "Queued", Head(bk.rest).email, now))
           /\ bulkers' = [bulkers EXCEPT ![k] = Pushed(bk, <<"Ok", NoText>>)]
    /\ UNCHANGED <<qvars, dvars, pvars, bvars, config, evars, xvars, yvars, max_entries, transport,
                   unsuppressed>>

\* deliver, line 196: send has returned
BulkSent(k) ==
    /\ bulkers[k].pc = "sending"
    /\ senders[BulkSenderOf(k)].pc = "done"
    /\ bulkers' = [bulkers EXCEPT ![k] =
          Pushed(bulkers[k], senders[BulkSenderOf(k)].result)]
    /\ UNCHANGED <<qvars, rvars, dvars, pvars, bvars, config, evars, xvars, yvars>>

----------------------------------------------------------------------------
(* SpecBulk: one caller runs send_template_bulk on up to two recipients    *)
(* while the operator reconfigures the mailer, configures the transport    *)
(* and suppresses a@x.com; the queue holds one item.                       *)

BulkMaxLen == 2      \* recipients of one call
BulkMaxSize == 1     \* max_size of the queue
BulkRecipients == [email : {"a@x.com", "b@x.com"}, complete : BOOLEAN]
BulkInputs ==
    UNION { [1..n -> BulkRecipients] : n \in 0..BulkMaxLen }

BulkInit ==
    /\ QueueInit
    /\ max_size = BulkMaxSize
    /\ retry_max_attempts = 1
    /\ RegistryInit
    /\ max_entries = 1
    /\ transport = FALSE

BulkNext ==
    \/ \E c \in Configs : Configure(c)
    \/ \E k \in Bulkers, known \in BOOLEAN, rs \in BulkInputs : BulkBegin(k, known, rs)
    \/ \E k \in Bulkers : BulkRender(k)
    \/ \E k \in Bulkers : BulkDeliver(k)
    \/ \E k \in Bulkers : BulkQueueCheck(k)
    \/ \E k \in Bulkers : BulkAdmit(k)
    \/ \E k \in Bulkers : BulkInsert(k)
    \/ \E k \in Bulkers : BulkLogQueued(k)
    \/ \E k \in Bulkers : BulkSent(k)
    \/ \E s \in Senders : SendCheck(s)
    \/ \E s \in Senders : SendAcquire(s)
    \/ \E s \in Senders : SendLogQueued(s)
    \/ \E s \in Senders, r \in SendResults : SendTransport(s, r)
    \/ \E s \in Senders : SendLogResult(s)
    \/ \E r \in Reasons : AddToSuppression("a@x.com", r)
    \/ ConfigureSmtp

SpecBulk == BulkInit /\ [][BulkNext]_vars

\* C19: send_template_bulk returns one result per recipient passed in, in
\* the order passed in: the results and the recipients still to come always
\* add up to the input, and the i-th result is the outcome of the i-th
\* recipient (a Template error exactly for an unknown template or data
\* without a required variable, Suppressed naming that recipient)
C19_OneResultPerRecipient ==
    \A k \in Bulkers :
        LET bk == bulkers[k]
        IN  /\ Len(bk.results) + Len(bk.rest) = Len(bk.input)
            /\ bk.pc = "done" => Len(bk.results) = Len(bk.input)
            /\ \A i \in DOMAIN bk.results :
                  /\ i \in DOMAIN bk.input
                  /\ bk.results[i][1] = "Template"
                        <=> (~bk.known \/ ~bk.input[i].complete)
                  /\ bk.results[i][1] = "Suppressed"
                        => bk.results[i][2] = bk.input[i].email

----------------------------------------------------------------------------
(* QueueService::retry, on every store Spec reaches *)

\* the fields retry leaves alone
RetryKeeps(before, after) ==
    /\ after.email = before.email
    /\ after.max_attempts = before.max_attempts
    /\ after.priority = before.priority
    /\ after.started_at = before.started_at
    /\ after.completed_at = before.completed_at
    /\ after.worker_id = before.worker_id

\* what retry makes of an item it accepts
RetryResets(after, t) ==
    /\ after.status = "Pending"
    /\ after.attempts = 0
    /\ after.last_error = NoText
    /\ after.next_retry_at = NoTime
    /\ after.scheduled_at = t

\* C20: retry(id) is NotFound on an unknown id and Invalid on a status
\* other than Failed or Cancelled, and then leaves the store as it was; on
\* a Failed or Cancelled item it is Ok and sets status Pending, attempts 0,
\* last_error and next_retry_at absent and scheduled_at = now, touching
\* nothing else, so that get_pending selects the item again; and an item
\* goes from Failed or Cancelled to Pending in no other way
C20_RetryOnlyFromFailedOrCancelled ==
    /\ [](\A id \in 1..MaxIds :
            LET after == retry(items, id, now)
            IN  /\ id \notin DOMAIN items =>
                      /\ RetryResult(items, id) = "NotFound"
                      /\ after = items
                /\ (id \in DOMAIN items
                      /\ items[id].status \notin {"Failed", "Cancelled"}) =>
                      /\ RetryResult(items, id) = "Invalid"
                      /\ after = items
                /\ (id \in DOMAIN items
                      /\ items[id].status \in {"Failed", "Cancelled"}) =>
                      /\ RetryResult(items, id) = "Ok"
                      /\ DOMAIN after = DOMAIN items
                      /\ \A j \in DOMAIN items \ {id} : after[j] = items[j]
                      /\ RetryResets(after[id], now)
                      /\ RetryKeeps(items[id], after[id])
                      /\ id \in Eligible(after, now))
    /\ [][\A id \in DOMAIN items \cap DOMAIN items' :
            (items[id].status \in {"Failed", "Cancelled"}
               /\ items'[id].status = "Pending") =>
                  /\ RetryResets(items'[id], now)
                  /\ RetryKeeps(items[id], items'[id])
                  /\ \A j \in DOMAIN items \ {id} :
                        j \in DOMAIN items' /\ items'[j] = items[j]
         ]_vars

\* an item that was claimed and then came to an end at time 0 has been
\* retried at time 1: Pending again, no attempts, no error, scheduled now
C20_Witness ==
    /\ now = 1
    /\ \E id \in DOMAIN items :
          /\ RetryResets(items[id], 1)
          /\ items[id].started_at = 0
          /\ items[id].completed_at = 0

----------------------------------------------------------------------------
(* QueueService::cancel, on every store Spec reaches *)

\* C21: cancel(id) is NotFound on an unknown id and Invalid on a Sent item,
\* and then leaves the store as it was; on any other item it is Ok and sets
\* status Cancelled and completed_at = now, after which get_pending does
\* not select the item and claim refuses it; and a Cancelled item stays
\* out of get_pending and refused by claim until retry is called on it
C21_CancelledNeverProcessed ==
    /\ [](\A id \in 1..MaxIds :
            LET after == svc_cancel(items, id, now)
            IN  /\ id \notin DOMAIN items =>
                      /\ CancelResult(items, id) = "NotFound"
                      /\ after = items
                /\ (id \in DOMAIN items /\ items[id].status = "Sent") =>
                      /\ CancelResult(items, id) = "Invalid"
                      /\ after = items
                /\ (id \in DOMAIN items /\ items[id].status # "Sent") =>
                      /\ CancelResult(items, id) = "Ok"
                      /\ after[id].status = "Cancelled"
                      /\ after[id].completed_at = now
                      /\ id \notin Eligible(after, now)
                      /\ ClaimResult(after, id) = "Invalid")
    /\ [][\A id \in DOMAIN items \cap DOMAIN items' :
            (items[id].status = "Cancelled" /\ items' # retry(items, id, now)) =>
                /\ id \notin Eligible(items', now')
                /\ ClaimResult(items', id) = "Invalid"
         ]_vars

----------------------------------------------------------------------------
(* models/email.rs: the ways an Email comes into being *)

\* Email::new(from, to, subject): one recipient in to, no body
Email_new(from, to, subject) ==
    [from |-> from, to |-> <<to>>, cc |-> <<>>, bcc |-> <<>>, subject |-> subject,
     text_body |-> FALSE, html_body |-> FALSE]

\* EmailBuilder::build: Err(text), or Ok(email)
build(b) ==
    IF b.from = NoText THEN <<"Err", "From address is required">>
    ELSE IF b.subject = NoText THEN <<"Err", "Subject is required">>
    ELSE IF b.to = <<>> /\ b.cc = <<>> /\ b.bcc = <<>>
    THEN <<"Err", "At least one recipient is required">>
    ELSE IF ~b.text_body /\ ~b.html_body
    THEN <<"Err", "Email must have a body (text or HTML)">>
    ELSE <<"Ok", [from |-> b.from, to |-> b.to, cc |-> b.cc, bcc |-> b.bcc,
                  subject |-> b.subject, text_body |-> b.text_body,
                  html_body |-> b.html_body]>>

\* TemplateService::build_email(rendered, from, to)
build_email(rendered, from, to) ==
    [Email_new(from, to, rendered.subject) EXCEPT
        !.text_body = rendered.text_body, !.html_body = rendered.html_body]

\* EmailBuilder::to / cc / bcc: the address is pushed on the list
BuilderPush(list, a, max_len) ==
    /\ Len(builder[list]) < max_len
    /\ builder' = [builder EXCEPT ![list] = Append(@, a)]
    /\ UNCHANGED <<qvars, rvars, dvars, pvars, bvars, mvars, made, yvars, xvars>>

\* EmailBuilder::from / subject (Some(value)) and text / html (Some(body))
BuilderSet(field, value) ==
    /\ builder' = [builder EXCEPT ![field] = value]
    /\ UNCHANGED <<qvars, rvars, dvars, pvars, bvars, mvars, made, yvars, xvars>>

\* EmailBuilder::build consumes the builder
BuilderBuild ==
    /\ made' = build(builder)
    /\ builder' = EmptyBuilder
    /\ UNCHANGED <<qvars, rvars, dvars, pvars, bvars, mvars, yvars, xvars>>

\* Email::new called directly
EmailNew(from, to, subject) ==
    /\ made' = <<"Ok", Email_new(from, to, subject)>>
    /\ UNCHANGED <<qvars, rvars, dvars, pvars, bvars, mvars, builder, yvars, xvars>>

\* build_email on the rendering of a registered template, which has a body
BuildEmail(rendered, from, to) ==
    /\ rendered.text_body \/ rendered.html_body
    /\ made' = <<"Ok", build_email(rendered, from, to)>>
    /\ UNCHANGED <<qvars, rvars, dvars, pvars, bvars, mvars, builder, yvars, xvars>>

----------------------------------------------------------------------------
(* SpecEmail: a builder is filled in any order and built; Email::new and   *)
(* build_email are called on any arguments.                                *)

EmailMaxLen == 1     \* addresses pushed on one list of the builder
EmailFroms == {"a@x.com"}
EmailTos == {"b@x.com"}
EmailSubjects == {"Hi"}
Rendered == [subject : EmailSubjects, text_body : BOOLEAN, html_body : BOOLEAN]

EmailInit ==
    /\ QueueInit
    /\ max_size = 1
    /\ retry_max_attempts = 1
    /\ RegistryInit
    /\ max_entries = 1
    /\ transport = FALSE

EmailNext ==
    \/ \E l \in {"to", "cc", "bcc"}, a \in EmailTos : BuilderPush(l, a, EmailMaxLen)
    \/ \E a \in EmailFroms : BuilderSet("from", a)
    \/ \E t \in EmailSubjects : BuilderSet("subject", t)
    \/ \E f \in {"text_body", "html_body"} : BuilderSet(f, TRUE)
    \/ BuilderBuild
    \/ \E f \in EmailFroms, t \in EmailTos, u \in EmailSubjects : EmailNew(f, t, u)
    \/ \E r \in Rendered, f \in EmailFroms, t \in EmailTos : BuildEmail(r, f, t)

SpecEmail == EmailInit /\ [][EmailNext]_vars

\* C22: every Email that is constructed, by the builder, by Email::new or
\* by build_email, has a sender, at least one recipient across to, cc and
\* bcc and at least one of the text and HTML bodies; a builder lacking one
\* of them yields an error and no Email
C22_ConstructedMessagesAreValid ==
    /\ made # <<>> /\ made[1] = "Ok" =>
          /\ made[2].from # NoText
          /\ made[2].to \o made[2].cc \o made[2].bcc # <<>>
          /\ made[2].text_body \/ made[2].html_body
    /\ LET b == builder
           lacking == \/ b.from = NoText
                      \/ b.to \o b.cc \o b.bcc = <<>>
                      \/ ~(b.text_body \/ b.html_body)
       IN  lacking => build(b)[1] = "Err"

----------------------------------------------------------------------------
(* models/queue.rs: RetryPolicy::get_delay, with the default policy.  The  *)
(* argument is a u32, cast to i32 for powi; the product is an f64, cast    *)
(* to u64 (the cast truncates and saturates) and capped.                   *)

InitialDelaySecs == 60
MaxDelaySecs == 3600
Multiplier == 2
I32Max == 2147483647
ExactUpTo == 20      \* 60 * 2^20 fits an Int; beyond it only the size matters

RECURSIVE Pow(_, _)
Pow(b, n) == IF n = 0 THEN 1 ELSE b * Pow(b, n - 1)

\* attempt as i32: the sign and the magnitude of the exponent; a magnitude
\* beyond ExactUpTo is given as ExactUpTo + 1
AsI32(u) ==
    IF ~u.top
    THEN [neg |-> FALSE, mag |-> Min(u.low, ExactUpTo + 1)]
    ELSE [neg |-> TRUE,
          mag |-> IF u.low >= I32Max - ExactUpTo
                  THEN (I32Max - u.low) + 1
                  ELSE ExactUpTo + 1]

\* (initial_delay_secs as f64 * multiplier.powi(attempt as i32)) as u64,
\* then .min(max_delay_secs): a product too large to write down is above
\* the cap, a product below 1 is cast to 0
get_delay(u) ==
    LET e == AsI32(u)
    IN  IF ~e.neg
        THEN IF e.mag > ExactUpTo THEN MaxDelaySecs
             ELSE Min(InitialDelaySecs * Pow(Multiplier, e.mag), MaxDelaySecs)
        ELSE IF e.mag > ExactUpTo THEN 0
             ELSE Min(InitialDelaySecs \div Pow(Multiplier, e.mag), MaxDelaySecs)

\* a call of get_delay(attempt) on RetryPolicy::default()
GetDelay(u) ==
    /\ policy' = [attempt |-> u, delay |-> get_delay(u)]
    /\ UNCHANGED <<qvars, rvars, dvars, pvars, bvars, mvars, evars, xvars, deferral>>

\* a call of mark_failed at time t on an item Processing its attempt a of
\* max: the item, what mark_failed made of it, and t
DeferAt(a, max, error, t) ==
    /\ LET item == [NewItem("a@x.com", 0, 0, max) EXCEPT
                       !.status = "Processing", !.attempts = a, !.started_at = 0,
                       !.worker_id = WorkerId]
       IN  deferral' = <<item, mark_failed(item, error, t), t>>
    /\ UNCHANGED <<qvars, rvars, dvars, pvars, bvars, mvars, evars, xvars, policy>>

----------------------------------------------------------------------------
(* SpecDelay: get_delay is called on attempts at both ends of each half of *)
(* the u32 range, and mark_failed on items at every attempt count up to    *)
(* DelayMaxAttempts.                                                       *)

DelayMaxLow == 24          \* low bits 0..DelayMaxLow and I32Max - DelayMaxLow..I32Max
DelayMaxAttempts == 8      \* attempt counts handed to mark_failed
DelayMaxTime == 1          \* the clock of SpecDelay stops here
DelayAttempts ==
    { U32(top, low) : top \in BOOLEAN,
                      low \in (0..DelayMaxLow)
                                 \cup { I32Max - k : k \in 0..DelayMaxLow } }

DelayInit ==
    /\ QueueInit
    /\ max_size = 1
    /\ retry_max_attempts = 1
    /\ RegistryInit
    /\ max_entries = 1
    /\ transport = FALSE

DelayNext ==
    \/ \E u \in DelayAttempts : GetDelay(u)
    \/ \E max \in 1..(DelayMaxAttempts + 1), a \in 0..(DelayMaxAttempts + 1),
          e \in ErrorTexts :
          a <= max /\ DeferAt(a, max, e, now)
    \/ Tick(DelayMaxTime)

SpecDelay == DelayInit /\ [][DelayNext]_vars

\* the attempt after u, for u below u32::MAX
Succ(u) ==
    IF u.low < I32Max THEN U32(u.top, u.low + 1) ELSE U32(TRUE, 0)

\* min(max_delay, initial_delay * multiplier^attempt), the attempt taken as
\* the non-negative number it is
CappedPower(u) ==
    IF u.top \/ u.low > ExactUpTo THEN MaxDelaySecs
    ELSE Min(InitialDelaySecs * Pow(Multiplier, u.low), MaxDelaySecs)

\* C23: with the default policy get_delay(attempt) is
\* min(3600, 60 * 2^attempt) seconds for every attempt: 60 for attempt 0,
\* 120 for attempt 1, never above 3600, and never less than for the
\* attempt before
C23_DelayIsCappedPower ==
    /\ get_delay(U32(FALSE, 0)) = 60
    /\ get_delay(U32(FALSE, 1)) = 120
    /\ policy.delay # NoTime =>
          /\ policy.delay <= MaxDelaySecs
          /\ policy.delay = CappedPower(policy.attempt)
          /\ policy.attempt # U32(TRUE, I32Max) =>
                policy.delay <= get_delay(Succ(policy.attempt))

SecsPerUnit == 60    \* seconds in one unit of the model's clock

----------------------------------------------------------------------------
(* SpecTrail: send is called, one call at a time, on messages with up to   *)
(* two recipients in to; the log keeps the last TrailMaxEntries entries,   *)
(* enough for the entries of one call.                                     *)

TrailMaxEntries == 4     \* max_entries of the log
TrailTos == {<<>>, <<"a@x.com">>, <<"b@x.com">>, <<"a@x.com", "b@x.com">>,
             <<"b@x.com", "a@x.com">>}
TrailMessages ==
    { [id |-> 1, to |-> to, cc |-> cc, bcc |-> <<>>] :
        to \in TrailTos, cc \in {<<>>, <<"b@x.com">>} } \
    { [id |-> 1, to |-> <<>>, cc |-> <<>>, bcc |-> <<>>] }

TrailInit ==
    /\ QueueInit
    /\ max_size = 1
    /\ retry_max_attempts = 1
    /\ RegistryInit
    /\ max_entries = TrailMaxEntries
    /\ transport = FALSE

TrailNext ==
    \/ \E s \in Senders, m \in TrailMessages : SendBegin(s, m)
    \/ \E s \in Senders : SendCheck(s)
    \/ \E s \in Senders : SendAcquire(s)
    \/ \E s \in Senders : SendLogQueued(s)
    \/ \E s \in Senders, r \in SendResults : SendTransport(s, r)
    \/ \E s \in Senders : SendLogResult(s)
    \/ ConfigureSmtp
    \/ Tick(1)

SpecTrail == TrailInit /\ [][TrailNext]_vars

\* the last n entries of the log
LastEntries(n) == SubSeq(logs, Len(logs) - n + 1, Len(logs))

\* the n entries are event entries for the first n recipients of to, in order
TrailOf(entries, event, to, n) ==
    /\ Len(entries) = n
    /\ \A k \in 1..n :
          /\ entries[k].event = event
          /\ entries[k].recipient = to[k]
          /\ entries[k].email_id = 1

\* C24: a call of send that reaches the transport has by then logged one
\* Queued entry per recipient of to, in order, and nothing else; after the
\* transport call it logs one Sent entry per recipient of to if the
\* transport succeeded and one Failed entry per recipient if it failed,
\* never both, and a transport failure is returned as an Smtp error
C24_LogTrailOfOneSend ==
    \A s \in Senders :
        LET sd == senders[s]
            to == sd.msg.to
            n == Len(to)
            outcome == IF sd.result[1] = "Ok" THEN "Sent" ELSE "Failed"
        IN  /\ sd.pc = "log_queued" =>
                  /\ ~sd.transported
                  /\ Len(logs) >= sd.i - 1
                  /\ TrailOf(LastEntries(sd.i - 1), "Queued", to, sd.i - 1)
            /\ sd.pc = "transport" =>
                  /\ ~sd.transported
                  /\ Len(logs) >= n
                  /\ TrailOf(LastEntries(n), "Queued", to, n)
            /\ sd.pc = "log_result" =>
                  /\ sd.transported
                  /\ Len(logs) >= n + sd.i - 1
                  /\ TrailOf(LastEntries(sd.i - 1), outcome, to, sd.i - 1)
                  /\ TrailOf(SubSeq(LastEntries(n + sd.i - 1), 1, n), "Queued", to, n)
            /\ (sd.pc = "done" /\ sd.transported) =>
                  /\ Len(logs) >= 2 * n
                  /\ TrailOf(LastEntries(n), outcome, to, n)
                  /\ TrailOf(SubSeq(LastEntries(2 * n), 1, n), "Queued", to, n)
                  /\ sd.result[1] \in {"Ok", "Smtp"}
            /\ (sd.pc = "done" /\ ~sd.transported) => sd.result[1] # "Ok"

\* a call with two recipients in to has come back from a failed transport
\* call: the log ends Queued, Queued, Failed, Failed
C24_Witness ==
    \E s \in Senders :
        /\ senders[s].pc = "done"
        /\ senders[s].transported
        /\ senders[s].result[1] = "Smtp"
        /\ senders[s].msg.to = <<"a@x.com", "b@x.com">>
        /\ Len(logs) = 4
        /\ logs[1].event = "Queued" /\ logs[1].recipient = "a@x.com"
        /\ logs[2].event = "Queued" /\ logs[2].recipient = "b@x.com"
        /\ logs[3].event = "Failed" /\ logs[3].recipient = "a@x.com"
        /\ logs[4].event = "Failed" /\ logs[4].recipient = "b@x.com"

----------------------------------------------------------------------------
(* The event log against the transitions of the queue, under SpecBatch *)

\* C25: every transition of a queue item and every delivery attempt
\* appends an entry to the event log; the log keeps its newest entry, so
\* once an item has left Pending (it was claimed, or cancelled) the log is
\* not empty
C25_TransitionsAreLogged ==
    \A id \in DOMAIN items : items[id].status # "Pending" => logs # <<>>

----------------------------------------------------------------------------
(* The locks a caller holds between its steps.  Every step of the model is *)
(* one lock scope of the code: the guard taken inside it is dropped before *)
(* the step ends; the guards below outlive a step.                         *)

Stores == {"items", "suppression_list", "bounces", "complaints", "logs"}

\* send that keeps the guard of its last log call through the transport call
SendLocksThroughLog(sd) ==
    IF sd.pc \in {"log_queued", "transport", "log_result"}
    THEN {<<"transport", "read">>, <<"logs", "write">>}
    ELSE {}

\* send, lines 130-166: the read guard on the transport lives from line 130
\* to the return; is_suppressed and log take and drop their own guards
SendLocks(sd) ==
    IF sd.pc \in {"log_queued", "transport", "log_result"}
    THEN {<<"transport", "read">>}
    ELSE {}

\* process_queue: get_pending, claim, mark_sent and mark_failed each take
\* and drop the guard on items; none is held across the call of send
BatchLocks(bt) == {}

\* the guards held by the call of send of sender s and by its caller
HeldAround(s) ==
    SendLocks(senders[s])
      \cup UNION { BatchLocks(batchers[b]) : b \in { x \in Batchers : SenderOf(x) = s } }

----------------------------------------------------------------------------
(* Suppression against calls of send that are under way, under SpecSend *)

\* C27: when a call of send invokes transport.send, no recipient of its
\* message is in the suppression list, whatever add_to_suppression did
\* since the call began
C27_NoSuppressedRecipientAtTransport ==
    [][\A s \in Senders :
          (senders[s].pc = "transport" /\ senders'[s].transported) =>
              SuppressedRecipients(senders[s].msg) = {}
      ]_vars

----------------------------------------------------------------------------
(* The back-off against workers that hold a batch, under Spec *)

\* C28: a claim is granted, and so a delivery attempt begins, only for an
\* item whose scheduled_at has come and whose next_retry_at, if any, has
\* come, whichever worker asks and however old its batch is
C28_ClaimRespectsBackoff ==
    [][\A id \in DOMAIN items \cap DOMAIN items' :
          (items[id].status # "Processing" /\ items'[id].status = "Processing") =>
              /\ items[id].scheduled_at <= now
              /\ items[id].next_retry_at = NoTime \/ items[id].next_retry_at <= now
      ]_vars

----------------------------------------------------------------------------
(* SpecLive: two workers go on calling process_queue, the transport always *)
(* answers, and time goes on as long as an item waits for it.              *)

LiveMaxIds == 2      \* ids SpecLive hands out
LiveMaxTime == 0     \* the clock stops here unless a deferred item waits for it
LiveCeilings == {1, 2}

\* the clock advances; it is stopped at max_time only when no Deferred item
\* is waiting for its next_retry_at
Advance(max_time) ==
    /\ \/ now < max_time
       \/ \E id \in DOMAIN items :
             items[id].status = "Deferred" /\ items[id].next_retry_at > now
    /\ now' = now + 1
    /\ UNCHANGED <<items, next_id, max_size, retry_max_attempts, clients, workers,
                   rvars, dvars, bvars, pvars, mvars, evars, xvars, yvars>>

LiveInit ==
    /\ QueueInit
    /\ max_size = LiveMaxIds
    /\ retry_max_attempts \in LiveCeilings
    /\ RegistryInit
    /\ max_entries = 1
    /\ transport = FALSE

LiveNext ==
    \/ AdmitCheck("c1", NoTime, LiveMaxIds)
    \/ \E e \in QueueEmails : AdmitInsert("c1", e)
    \/ \E w \in Workers, n \in 1..LiveMaxIds : GetPending(w, n)
    \/ \E w \in Workers : Claim(w)
    \/ \E w \in Workers : MarkSent(w)
    \/ \E w \in Workers, e \in ErrorTexts : MarkFailed(w, e)
    \/ \E id \in 1..LiveMaxIds : Cancel(id)
    \/ Advance(LiveMaxTime)

\* each worker calls process_queue again and again and goes through its
\* batch; every call of send returns; an insert under way completes
LiveFairness ==
    /\ \A w \in Workers :
          /\ WF_vars(\E n \in 1..LiveMaxIds : GetPending(w, n))
          /\ WF_vars(Claim(w))
          /\ WF_vars(MarkSent(w) \/ \E e \in ErrorTexts : MarkFailed(w, e))
    /\ WF_vars(\E e \in QueueEmails : AdmitInsert("c1", e))
    /\ WF_vars(Advance(LiveMaxTime))

SpecLive == LiveInit /\ [][LiveNext]_vars /\ LiveFairness

\* C29: every item in the queue eventually is Sent, Failed or Cancelled
C29_EveryItemEnds ==
    \A id \in 1..LiveMaxIds :
        (id \in DOMAIN items) ~>
            (id \in DOMAIN items /\ items[id].status \in {"Sent", "Failed", "Cancelled"})

\* every item has ended, one of them delivered at its second attempt after
\* the back-off had elapsed
C29_Witness ==
    /\ DOMAIN items = 1..LiveMaxIds
    /\ \A id \in DOMAIN items : items[id].status \in {"Sent", "Failed", "Cancelled"}
    /\ \E id \in DOMAIN items :
          /\ items[id].status = "Sent"
          /\ items[id].attempts = 2
          /\ items[id].next_retry_at # NoTime
          /\ items[id].next_retry_at <= now

----------------------------------------------------------------------------
(* SpecFail: mark_failed is called with a retryable and with a             *)
(* non-retryable error text on items at every attempt count.               *)

FailMaxAttempts == 6    \* attempts and ceilings up to this
FailMaxTime == 1        \* the clock of SpecFail stops here

FailInit ==
    /\ QueueInit
    /\ max_size = 1
    /\ retry_max_attempts = 1
    /\ RegistryInit
    /\ max_entries = 1
    /\ transport = FALSE

FailNext ==
    \/ \E max \in 1..FailMaxAttempts, a \in 0..FailMaxAttempts, e \in FailureTexts :
          DeferAt(a, max, e, now)
    \/ Tick(FailMaxTime)

SpecFail == FailInit /\ [][FailNext]_vars

\* C31: what mark_failed makes of an item is the same for every error text
\* but for last_error, and the status is Deferred exactly when
\* attempts < max_attempts, Failed otherwise
C31_FailureIgnoresErrorText ==
    deferral # <<>> =>
        /\ \A e \in FailureTexts :
              [mark_failed(deferral[1], e, deferral[3]) EXCEPT !.last_error = NoText]
                  = [deferral[2] EXCEPT !.last_error = NoText]
        /\ deferral[2].last_error \in FailureTexts
        /\ deferral[2].status =
              IF deferral[1].attempts < deferral[1].max_attempts
              THEN "Deferred" ELSE "Failed"

\* mark_failed has deferred an item on a text that is not retryable
C31_Witness ==
    /\ deferral # <<>>
    /\ ~is_retryable(deferral[2].last_error)
    /\ deferral[2].status = "Deferred"
    /\ deferral[1].attempts = 1

----------------------------------------------------------------------------
(* SpecLog: events are logged under a ceiling of 0, 1 or 2 entries while   *)
(* time passes, and old entries are purged on request.                     *)

LogMaxEntries == 2     \* ceilings of the log up to this
LogMaxTime == 2        \* the clock of SpecLog stops here
LogCallEvents == {"Delivered", "Opened", "Unsubscribed"}

\* LogService::cleanup(older_than)
LogCleanup(older_than) ==
    /\ logs' = log_cleanup(logs, now, older_than)
    /\ UNCHANGED <<qvars, dvars, bvars, pvars, mvars, evars, xvars, yvars, bounces, complaints,
                   suppression_list, max_entries, transport, senders, unsuppressed>>

LogInit ==
    /\ QueueInit
    /\ max_size = 1
    /\ retry_max_attempts = 1
    /\ RegistryInit
    /\ max_entries \in 0..LogMaxEntries
    /\ transport = FALSE

LogNext ==
    \/ \E id \in EmailIds, e \in LogCallEvents : Log(id, e, "a@x.com", 1)
    \/ \E d \in Durations : LogCleanup(d)
    \/ Tick(LogMaxTime)

SpecLog == LogInit /\ [][LogNext]_vars

\* C32: the log never holds more than max_entries entries, and a call of log
\* keeps the entries it found, unchanged and in their order, drops from the
\* front just as many as the ceiling requires, and puts the new entry last
C32_LogAppendOnlyBounded ==
    /\ [](Len(logs) <= max_entries)
    /\ [][(logs' # logs /\ Len(logs') >= Len(logs)) =>
            LET over == Len(logs) + 1 - max_entries
                k == IF over > 0 THEN over ELSE 0
            IN  /\ logs' = SubSeq(logs, k + 1, Len(logs)) \o <<logs'[Len(logs')]>>
                /\ logs'[Len(logs')].timestamp = now
         ]_vars

\* the log is at its ceiling of two entries, logged at different times, and
\* the unsubscribe event that suppressed the address is no longer in it
C32_Witness ==
    /\ max_entries = LogMaxEntries
    /\ Len(logs) = max_entries
    /\ logs[1].timestamp < logs[2].timestamp
    /\ suppression_list # << >>
    /\ \A i \in 1..Len(logs) : logs[i].event # "Unsubscribed"

----------------------------------------------------------------------------
(* SpecSweep: items are sent, failed, cancelled and retried while time     *)
(* passes, and cleanup is called with its result kept.                     *)

SweepMaxIds == 2      \* ids SpecSweep hands out
SweepMaxTime == 2     \* the clock of SpecSweep stops here

\* QueueService::cleanup(older_than) and the count it returns
CleanupCall(older_than) ==
    /\ items' = cleanup(items, now, older_than)
    /\ swept' = [older_than |-> older_than,
                 count |-> Cardinality(CleanupIds(items, now, older_than))]
    /\ UNCHANGED <<now, next_id, max_size, retry_max_attempts, clients, workers,
                   rvars, dvars, bvars, pvars, mvars, evars, yvars, enqueuer, tvars>>

SweepInit ==
    /\ QueueInit
    /\ max_size = SweepMaxIds
    /\ retry_max_attempts = 1
    /\ RegistryInit
    /\ max_entries = 1
    /\ transport = FALSE

SweepNext ==
    \/ AdmitCheck("c1", NoTime, SweepMaxIds)
    \/ \E e \in QueueEmails : AdmitInsert("c1", e)
    \/ GetPending("w1", 1)
    \/ Claim("w1")
    \/ MarkSent("w1")
    \/ \E e \in ErrorTexts : MarkFailed("w1", e)
    \/ \E id \in 1..SweepMaxIds : Cancel(id)
    \/ \E id \in 1..SweepMaxIds : Retry(id)
    \/ \E d \in Durations : CleanupCall(d)
    \/ Tick(SweepMaxTime)

SpecSweep == SweepInit /\ [][SweepNext]_vars

\* C33: a call of cleanup(older_than) removes the items that are Sent, Failed
\* or Cancelled with completed_at before now - older_than and no other item,
\* returns their number, and leaves every remaining item as it was
C33_CleanupRemovesOldCompleted ==
    [][(swept' # swept \/ DOMAIN items \ DOMAIN items' # {}) =>
          LET gone == DOMAIN items \ DOMAIN items'
              cutoff == now - swept'.older_than
          IN  /\ gone = { id \in DOMAIN items :
                            /\ items[id].status \in {"Sent", "Failed", "Cancelled"}
                            /\ items[id].completed_at # NoTime
                            /\ items[id].completed_at < cutoff }
              /\ swept'.count = Cardinality(gone)
              /\ DOMAIN items' = DOMAIN items \ gone
              /\ \A id \in DOMAIN items' : items'[id] = items[id]
      ]_vars

\* cleanup has removed one item and left a Pending one that was retried
\* after it had completed before the cutoff
C33_Witness ==
    /\ swept.count = 1
    /\ \E id \in DOMAIN items :
          /\ items[id].status = "Pending"
          /\ items[id].completed_at # NoTime
          /\ items[id].completed_at < now - swept.older_than
    /\ Cardinality(DOMAIN items) = 1
    /\ next_id = 3

----------------------------------------------------------------------------
(* services/queue.rs: enqueue_batch *)

\* enqueue_batch goes on to the next email of the request, or returns
NextEmail(q) ==
    IF q.index < Len(q.request[1].emails)
    THEN [q EXCEPT !.pc = "check", !.index = q.index + 1]
    ELSE [q EXCEPT !.pc = "done"]

\* enqueue_batch(request) is called
EnqueueBatchBegin(request) ==
    /\ enqueuer.pc \in {"idle", "done"}
    /\ enqueuer' = NextEmail([IdleEnqueuer EXCEPT !.request = <<request>>])
    /\ UNCHANGED <<qvars, rvars, dvars, bvars, pvars, mvars, evars, yvars, swept, tvars>>

\* enqueue / schedule on the email at index, first half: the capacity check
\* under the read lock; QueueFull goes to errors
EnqueueBatchCheck(max_ids) ==
    /\ enqueuer.pc = "check"
    /\ next_id <= max_ids
    /\ enqueuer' =
          IF Size(items) >= max_size
          THEN NextEmail([enqueuer EXCEPT
                  !.result.errors =
                      Append(@, [index |-> enqueuer.index - 1, message |-> "Queue full"]),
                  !.result.failed = @ + 1])
          ELSE [enqueuer EXCEPT !.pc = "insert"]
    /\ UNCHANGED <<qvars, rvars, dvars, bvars, pvars, mvars, evars, yvars, swept, tvars>>

\* second half: the insert under the write lock, which returns a clone of
\* the stored item; then the Ok arm, which works on that clone
EnqueueBatchInsert ==
    /\ enqueuer.pc = "insert"
    /\ LET request == enqueuer.request[1]
           sched == IF request.scheduled_at = <<>> THEN now ELSE request.scheduled_at[1]
           stored == NewItem(request.emails[enqueuer.index], now, sched, retry_max_attempts)
           with_priority ==
               IF request.priority = <<>> THEN stored
               ELSE [stored EXCEPT !.priority = request.priority[1]]
           item ==
               IF request.max_attempts = <<>> THEN with_priority
               ELSE [with_priority EXCEPT !.max_attempts = request.max_attempts[1]]
       IN  /\ items' = [id \in DOMAIN items \cup {next_id} |->
                           IF id = next_id THEN stored ELSE items[id]]
           /\ enqueuer' = NextEmail([enqueuer EXCEPT
                  !.item = <<item>>,
                  !.result.queue_ids = Append(@, next_id),
                  !.result.queued = @ + 1])
    /\ next_id' = next_id + 1
    /\ UNCHANGED <<now, max_size, retry_max_attempts, clients, workers,
                   rvars, dvars, bvars, pvars, mvars, evars, yvars, swept, tvars>>

----------------------------------------------------------------------------
(* SpecEnqueue: batches of one or two emails are admitted with and without *)
(* a priority, a ceiling and a time, and one worker processes the queue.    *)

EnqueueMaxIds == 3      \* ids SpecEnqueue hands out
EnqueueMaxSize == 2     \* max_size of the queue in SpecEnqueue
EnqueueMaxTime == 1     \* the clock of SpecEnqueue stops here

Options(S) == {<<>>} \cup { <<x>> : x \in S }

\* BatchSendRequest; tags are carried along unread and left out
Requests ==
    [emails : { <<"a@x.com">>, <<"a@x.com", "a@x.com">> },
     scheduled_at : Options({EnqueueMaxTime}),
     priority : Options({1}),
     max_attempts : Options({1})]

EnqueueInit ==
    /\ QueueInit
    /\ max_size = EnqueueMaxSize
    /\ retry_max_attempts = 2
    /\ RegistryInit
    /\ max_entries = 1
    /\ transport = FALSE

EnqueueNext ==
    \/ \E request \in Requests : EnqueueBatchBegin(request)
    \/ EnqueueBatchCheck(EnqueueMaxIds)
    \/ EnqueueBatchInsert
    \/ GetPending("w1", 1)
    \/ Claim("w1")
    \/ \E e \in ErrorTexts : MarkFailed("w1", e)
    \/ Tick(EnqueueMaxTime)

SpecEnqueue == EnqueueInit /\ [][EnqueueNext]_vars

\* C34: every item enqueue_batch has admitted for the request at hand is
\* stored with the priority and the ceiling of the request, where it names
\* them
C34_BatchOptionsAreStored ==
    \A i \in DOMAIN enqueuer.result.queue_ids :
        LET id == enqueuer.result.queue_ids[i]
            request == enqueuer.request[1]
        IN  /\ id \in DOMAIN items
            /\ request.priority # <<>> => items[id].priority = request.priority[1]
            /\ request.max_attempts # <<>> =>
                   items[id].max_attempts = request.max_attempts[1]

----------------------------------------------------------------------------
(* services/template.rs: TemplateService, one step per lock acquisition.   *)
(* A guard lives to the end of the block that took it.  The handlebars     *)
(* registry is only ever read and is left out; the data always has the     *)
(* required variables.                                                     *)

\* tokio's RwLock: a write guard needs the lock free, a read guard needs it
\* free of writers
WriteFree(lock, t) ==
    \A u \in Callers \ {t} : \A h \in callers[u].held : h[1] # lock
ReadFree(lock, t) ==
    \A u \in Callers \ {t} : <<lock, "w">> \notin callers[u].held

\* the call returns: its guards are dropped, found is its result
Done(c) == [c EXCEPT !.pc = "done", !.arg = <<>>, !.held = {}]

\* register(template): the validation
RegisterBegin(t, template) ==
    /\ callers[t].pc \in {"idle", "done"}
    /\ callers' = [callers EXCEPT ![t] =
          IF ~template.body
          THEN Done([IdleCaller EXCEPT !.found = <<"Invalid">>])
          ELSE [IdleCaller EXCEPT !.pc = "register", !.arg = template]]
    /\ UNCHANGED <<qvars, rvars, dvars, bvars, pvars, mvars, evars, yvars, swept,
                   enqueuer, templates, templates_by_slug, layouts, default_layout>>

\* delete(id) is called
DeleteBegin(t, id) ==
    /\ callers[t].pc \in {"idle", "done"}
    /\ callers' = [callers EXCEPT ![t] = [IdleCaller EXCEPT !.pc = "delete", !.arg = id]]
    /\ UNCHANGED <<qvars, rvars, dvars, bvars, pvars, mvars, evars, yvars, swept,
                   enqueuer, templates, templates_by_slug, layouts, default_layout>>

\* register and delete: self.templates.write().await
LockTemplates(t) ==
    /\ callers[t].pc \in {"register", "delete"}
    /\ <<"templates", "w">> \notin callers[t].held
    /\ WriteFree("templates", t)
    /\ callers' = [callers EXCEPT ![t].held = @ \cup {<<"templates", "w">>}]
    /\ UNCHANGED <<qvars, rvars, dvars, bvars, pvars, mvars, evars, yvars, swept,
                   enqueuer, templates, templates_by_slug, layouts, default_layout>>

\* register: self.templates_by_slug.write().await, the two inserts, return
RegisterInsert(t) ==
    /\ callers[t].pc = "register"
    /\ <<"templates", "w">> \in callers[t].held
    /\ WriteFree("templates_by_slug", t)
    /\ LET template == callers[t].arg
       IN  /\ templates' = Put(templates, template.id,
                               [slug |-> template.slug, layout_id |-> template.layout_id])
           /\ templates_by_slug' = Put(templates_by_slug, template.slug, template.id)
    /\ callers' = [callers EXCEPT ![t] = Done([@ EXCEPT !.found = <<"Ok">>])]
    /\ UNCHANGED <<qvars, rvars, dvars, bvars, pvars, mvars, evars, yvars, swept,
                   enqueuer, layouts, default_layout>>

\* delete: self.templates_by_slug.write().await, the removals, return
DeleteRemove(t) ==
    /\ callers[t].pc = "delete"
    /\ <<"templates", "w">> \in callers[t].held
    /\ WriteFree("templates_by_slug", t)
    /\ LET id == callers[t].arg
       IN  IF id \in DOMAIN templates
           THEN /\ templates' = Remove(templates, id)
                /\ templates_by_slug' = Remove(templates_by_slug, templates[id].slug)
                /\ callers' = [callers EXCEPT ![t] = Done([@ EXCEPT !.found = <<"Ok">>])]
           ELSE /\ UNCHANGED <<templates, templates_by_slug>>
                /\ callers' = [callers EXCEPT ![t] = Done([@ EXCEPT !.found = <<"NotFound">>])]
    /\ UNCHANGED <<qvars, rvars, dvars, bvars, pvars, mvars, evars, yvars, swept,
                   enqueuer, layouts, default_layout>>

\* render_by_slug(slug, data) is called; it starts with get_by_slug
RenderBegin(t, slug) ==
    /\ callers[t].pc \in {"idle", "done"}
    /\ callers' = [callers EXCEPT ![t] = [IdleCaller EXCEPT !.pc = "by_slug", !.arg = slug]]
    /\ UNCHANGED <<qvars, rvars, dvars, bvars, pvars, mvars, evars, yvars, swept,
                   enqueuer, templates, templates_by_slug, layouts, default_layout>>

\* get_by_slug: self.templates_by_slug.read().await and by_slug.get(slug);
\* None ends render_by_slug with NotFound
GetBySlugIndex(t) ==
    /\ callers[t].pc = "by_slug"
    /\ ReadFree("templates_by_slug", t)
    /\ callers' = [callers EXCEPT ![t] =
          IF callers[t].arg \in DOMAIN templates_by_slug
          THEN [@ EXCEPT !.pc = "by_id", !.held = {<<"templates_by_slug", "r">>},
                         !.found = <<templates_by_slug[callers[t].arg]>>]
          ELSE Done([@ EXCEPT !.found = <<"NotFound">>])]
    /\ UNCHANGED <<qvars, rvars, dvars, bvars, pvars, mvars, evars, yvars, swept,
                   enqueuer, templates, templates_by_slug, layouts, default_layout>>

\* get_by_slug: self.templates.read().await inside the if let, and
\* templates.get(id).cloned(); then render_template chooses the layout
GetBySlugTemplate(t) ==
    /\ callers[t].pc = "by_id"
    /\ ReadFree("templates", t)
    /\ LET id == callers[t].found[1]
       IN  callers' = [callers EXCEPT ![t] =
              IF id \notin DOMAIN templates
              THEN Done([@ EXCEPT !.found = <<"NotFound">>])
              ELSE [@ EXCEPT !.pc = IF templates[id].layout_id # NoId
                                    THEN "get_layout" ELSE "default",
                             !.held = {},
                             !.found = <<templates[id]>>]]
    /\ UNCHANGED <<qvars, rvars, dvars, bvars, pvars, mvars, evars, yvars, swept,
                   enqueuer, templates, templates_by_slug, layouts, default_layout>>

\* render_template, layout_id set: get_layout(layout_id)
RenderOwnLayout(t) ==
    /\ callers[t].pc = "get_layout"
    /\ ReadFree("layouts", t)
    /\ callers' = [callers EXCEPT ![t] =
          Done([@ EXCEPT !.found = <<"Rendered">>])]
    /\ UNCHANGED <<qvars, rvars, dvars, bvars, pvars, mvars, evars, yvars, swept,
                   enqueuer, templates, templates_by_slug, layouts, default_layout>>

\* render_template, no layout_id: self.default_layout.read().await
RenderReadDefault(t) ==
    /\ callers[t].pc = "default"
    /\ ReadFree("default_layout", t)
    /\ callers' = [callers EXCEPT ![t] =
          IF default_layout # NoId
          THEN [@ EXCEPT !.pc = "default_layout", !.held = {<<"default_layout", "r">>},
                         !.found = <<default_layout>>]
          ELSE Done([@ EXCEPT !.found = <<"Rendered">>])]
    /\ UNCHANGED <<qvars, rvars, dvars, bvars, pvars, mvars, evars, yvars, swept,
                   enqueuer, templates, templates_by_slug, layouts, default_layout>>

\* render_template: get_layout(layout_id) with the default_layout guard alive
RenderDefaultLayout(t) ==
    /\ callers[t].pc = "default_layout"
    /\ ReadFree("layouts", t)
    /\ callers' = [callers EXCEPT ![t] =
          Done([@ EXCEPT !.found = <<"Rendered">>])]
    /\ UNCHANGED <<qvars, rvars, dvars, bvars, pvars, mvars, evars, yvars, swept,
                   enqueuer, templates, templates_by_slug, layouts, default_layout>>

\* register_layout(layout) is called
LayoutBegin(t, layout) ==
    /\ callers[t].pc \in {"idle", "done"}
    /\ callers' = [callers EXCEPT ![t] = [IdleCaller EXCEPT !.pc = "layout", !.arg = layout]]
    /\ UNCHANGED <<qvars, rvars, dvars, bvars, pvars, mvars, evars, yvars, swept,
                   enqueuer, templates, templates_by_slug, layouts, default_layout>>

\* register_layout: self.layouts.write().await and the insert
LayoutInsert(t) ==
    /\ callers[t].pc = "layout"
    /\ WriteFree("layouts", t)
    /\ layouts' = layouts \cup {callers[t].arg.id}
    /\ callers' = [callers EXCEPT ![t] =
          IF callers[t].arg.is_default
          THEN [@ EXCEPT !.pc = "set_default", !.held = {<<"layouts", "w">>}]
          ELSE Done(@)]
    /\ UNCHANGED <<qvars, rvars, dvars, bvars, pvars, mvars, evars, yvars, swept,
                   enqueuer, templates, templates_by_slug, default_layout>>

\* register_layout: self.default_layout.write().await with the layouts guard alive
LayoutSetDefault(t) ==
    /\ callers[t].pc = "set_default"
    /\ WriteFree("default_layout", t)
    /\ default_layout' = callers[t].arg.id
    /\ callers' = [callers EXCEPT ![t] = Done(@)]
    /\ UNCHANGED <<qvars, rvars, dvars, bvars, pvars, mvars, evars, yvars, swept,
                   enqueuer, templates, templates_by_slug, layouts>>

----------------------------------------------------------------------------
(* SpecTemplate: two callers register, delete and render templates and     *)
(* register layouts.                                                       *)

TemplateMaxIds == 2      \* ids of templates
Slugs == {"welcome", "reset"}
LayoutIds == {1}
\* EmailTemplate: id, slug, a body or none, layout_id
Templates ==
    [id : 1..TemplateMaxIds, slug : Slugs, body : BOOLEAN, layout_id : {NoId} \cup LayoutIds]
Layouts == [id : LayoutIds, is_default : BOOLEAN]

TemplateInit ==
    /\ QueueInit
    /\ max_size = 1
    /\ retry_max_attempts = 1
    /\ RegistryInit
    /\ max_entries = 1
    /\ transport = FALSE

\* the steps of a call under way
CallStep(t) ==
    \/ LockTemplates(t)
    \/ RegisterInsert(t)
    \/ DeleteRemove(t)
    \/ GetBySlugIndex(t)
    \/ GetBySlugTemplate(t)
    \/ RenderOwnLayout(t)
    \/ RenderReadDefault(t)
    \/ RenderDefaultLayout(t)
    \/ LayoutInsert(t)
    \/ LayoutSetDefault(t)

TemplateNext ==
    \/ \E t \in Callers, template \in Templates : RegisterBegin(t, template)
    \/ \E t \in Callers, id \in 1..TemplateMaxIds : DeleteBegin(t, id)
    \/ \E t \in Callers, slug \in Slugs : RenderBegin(t, slug)
    \/ \E t \in Callers, layout \in Layouts : LayoutBegin(t, layout)
    \/ \E t \in Callers : CallStep(t)

SpecTemplate == TemplateInit /\ [][TemplateNext]_vars

Underway(t) == callers[t].pc \notin {"idle", "done"}

\* C35: whenever calls of the template service are under way, one of them
\* can take its next step
C35_TemplateCallsNeverBlockEachOther ==
    (\E t \in Callers : Underway(t)) =>
        \E t \in Callers : Underway(t) /\ ENABLED CallStep(t)

\* C39: every slug of the index leads to a template that exists under that
\* slug, and the slug of every template in the map is in the index
C39_SlugIndexConsistent ==
    /\ \A slug \in DOMAIN templates_by_slug :
          /\ templates_by_slug[slug] \in DOMAIN templates
          /\ templates[templates_by_slug[slug]].slug = slug
    /\ \A id \in DOMAIN templates : templates[id].slug \in DOMAIN templates_by_slug

----------------------------------------------------------------------------
(* services/log.rs: LogService, one step per lock acquisition.  log takes  *)
(* the logs write lock first and keeps it to its end; record_bounce and    *)
(* record_complaint keep their own write lock while add_to_suppression     *)
(* takes the suppression_list lock.  Every other method takes one lock.    *)

\* the methods that take one lock, and the lock each of them takes
RegistryOps ==
    {"add_to_suppression", "remove_from_suppression", "is_suppressed", "get_bounce",
     "get_complaint", "stats", "query", "cleanup"}

LockOf(op) ==
    CASE op = "add_to_suppression" -> <<"suppression_list", "w">>
      [] op = "remove_from_suppression" -> <<"suppression_list", "w">>
      [] op = "is_suppressed" -> <<"suppression_list", "r">>
      [] op = "get_bounce" -> <<"bounces", "r">>
      [] op = "get_complaint" -> <<"complaints", "r">>
      [] op = "stats" -> <<"logs", "r">>
      [] op = "query" -> <<"logs", "r">>
      [] op = "cleanup" -> <<"logs", "w">>

\* an unsuppress that goes on to log the removal with its guard alive
ThenLogging(op) == IF op = "remove_from_suppression" THEN "log" ELSE "return"

\* where a one-lock method goes once it has its guard: to its body and out
Then(op) == "return"

\* log(entry) is called; no address collects more than max_bounces bounces
LogBegin(t, entry, max_bounces) ==
    /\ callers[t].pc \in {"idle", "done"}
    /\ (entry.event \in {"Bounced", "HardBounce", "SoftBounce"}
           /\ Lower(entry.recipient) \in DOMAIN bounces)
       => bounces[Lower(entry.recipient)].bounce_count < max_bounces
    /\ callers' = [callers EXCEPT ![t] =
          [IdleCaller EXCEPT !.pc = "log",
                             !.arg = [op |-> "log", entry |-> entry, older_than |-> 0]]]
    /\ UNCHANGED <<qvars, rvars, dvars, bvars, pvars, mvars, evars, yvars, swept,
                   enqueuer, templates, templates_by_slug, layouts, default_layout>>

\* log, line 63: self.logs.write().await, and the match on the event
LogLockLogs(t) ==
    /\ callers[t].pc = "log"
    /\ WriteFree("logs", t)
    /\ LET event == callers[t].arg.entry.event
       IN  callers' = [callers EXCEPT ![t] =
              [@ EXCEPT !.held = @ \cup {<<"logs", "w">>},
                        !.pc = IF event \in {"Bounced", "HardBounce", "SoftBounce"}
                               THEN "record_bounce"
                               ELSE IF event = "SpamComplaint" THEN "record_complaint"
                               ELSE IF event = "Unsubscribed" THEN "add_to_suppression"
                               ELSE "push"]]
    /\ UNCHANGED <<qvars, rvars, dvars, bvars, pvars, mvars, evars, yvars, swept,
                   enqueuer, templates, templates_by_slug, layouts, default_layout>>

\* record_bounce, lines 251-263: self.bounces.write().await and the record
LogLockBounces(t) ==
    /\ callers[t].pc = "record_bounce"
    /\ WriteFree("bounces", t)
    /\ LET email == Lower(callers[t].arg.entry.recipient)
           bounce_type == BounceTypeOf(callers[t].arg.entry.event)
       IN  /\ bounces' = Put(bounces, email,
                             BouncedRecord(Found(bounces, email), bounce_type))
           /\ callers' = [callers EXCEPT ![t] =
                 [@ EXCEPT !.held = @ \cup {<<"bounces", "w">>},
                           !.pc = IF bounce_type = "Hard"
                                  THEN "add_to_suppression" ELSE "push"]]
    /\ UNCHANGED <<qvars, dvars, bvars, pvars, mvars, evars, yvars, swept, enqueuer,
                   templates, templates_by_slug, layouts, default_layout,
                   logs, complaints, suppression_list, max_entries, transport, senders,
                   unsuppressed>>

\* record_complaint, lines 275-281: self.complaints.write().await and the record
LogLockComplaints(t) ==
    /\ callers[t].pc = "record_complaint"
    /\ WriteFree("complaints", t)
    /\ complaints' = Put(complaints, Lower(callers[t].arg.entry.recipient),
                         NewComplaintRecord("Abuse"))
    /\ callers' = [callers EXCEPT ![t] =
          [@ EXCEPT !.held = @ \cup {<<"complaints", "w">>}, !.pc = "add_to_suppression"]]
    /\ UNCHANGED <<qvars, dvars, bvars, pvars, mvars, evars, yvars, swept, enqueuer,
                   templates, templates_by_slug, layouts, default_layout,
                   logs, bounces, suppression_list, max_entries, transport, senders,
                   unsuppressed>>

\* add_to_suppression called from log, record_bounce or record_complaint,
\* lines 289-290, with the guards of the callers alive
LogLockSuppression(t) ==
    /\ callers[t].pc = "add_to_suppression"
    /\ callers[t].arg.op = "log"
    /\ WriteFree("suppression_list", t)
    /\ LET event == callers[t].arg.entry.event
           reason == IF event = "Unsubscribed" THEN "Unsubscribed"
                     ELSE IF event = "SpamComplaint" THEN "SpamComplaint"
                     ELSE "HardBounce"
       IN  suppression_list' =
               add_to_suppression(suppression_list, callers[t].arg.entry.recipient, reason)
    /\ senders' = Noting(senders, suppression_list')
    /\ callers' = [callers EXCEPT ![t] =
          [@ EXCEPT !.held = @ \cup {<<"suppression_list", "w">>}, !.pc = "push"]]
    /\ UNCHANGED <<qvars, dvars, bvars, pvars, mvars, evars, yvars, swept, enqueuer,
                   templates, templates_by_slug, layouts, default_layout,
                   logs, bounces, complaints, max_entries, transport, unsuppressed>>

\* log, lines 79-86: push, trim and return
LogPush(t) ==
    /\ callers[t].pc = "push"
    /\ logs' = PushTrim(logs, callers[t].arg.entry, max_entries)
    /\ callers' = [callers EXCEPT ![t] = Done(@)]
    /\ UNCHANGED <<qvars, dvars, bvars, pvars, mvars, evars, yvars, swept, enqueuer,
                   templates, templates_by_slug, layouts, default_layout,
                   bounces, complaints, suppression_list, max_entries, transport, senders,
                   unsuppressed>>

\* a method that takes one lock is called
RegistryBegin(t, op, email, older_than) ==
    /\ callers[t].pc \in {"idle", "done"}
    /\ callers' = [callers EXCEPT ![t] =
          [IdleCaller EXCEPT
              !.pc = op,
              !.arg = [op |-> op, entry |-> NewEntry(NoId, NoText, email, NoTime),
                       older_than |-> older_than]]]
    /\ UNCHANGED <<qvars, rvars, dvars, bvars, pvars, mvars, evars, yvars, swept,
                   enqueuer, templates, templates_by_slug, layouts, default_layout>>

\* its lock: read().await or write().await
RegistryLock(t) ==
    /\ callers[t].pc \in RegistryOps
    /\ callers[t].arg.op = callers[t].pc
    /\ LET lock == LockOf(callers[t].pc)
       IN  /\ IF lock[2] = "w" THEN WriteFree(lock[1], t) ELSE ReadFree(lock[1], t)
           /\ callers' = [callers EXCEPT ![t] =
                 [@ EXCEPT !.held = @ \cup {lock}, !.pc = Then(callers[t].pc)]]
    /\ UNCHANGED <<qvars, rvars, dvars, bvars, pvars, mvars, evars, yvars, swept,
                   enqueuer, templates, templates_by_slug, layouts, default_layout>>

\* its body under the guard, and the return
RegistryReturn(t) ==
    /\ callers[t].pc = "return"
    /\ LET op == callers[t].arg.op
           email == callers[t].arg.entry.recipient
       IN  /\ suppression_list' =
                 IF op = "add_to_suppression"
                 THEN add_to_suppression(suppression_list, email, "Manual")
                 ELSE IF op = "remove_from_suppression"
                 THEN remove_from_suppression(suppression_list, email)
                 ELSE suppression_list
           /\ unsuppressed' =
                 IF op = "remove_from_suppression"
                 THEN unsuppressed \cup {Lower(email)} ELSE unsuppressed
           /\ logs' = IF op = "cleanup"
                      THEN log_cleanup(logs, now, callers[t].arg.older_than)
                      ELSE logs
    /\ senders' = Noting(senders, suppression_list')
    /\ callers' = [callers EXCEPT ![t] = Done(@)]
    /\ UNCHANGED <<qvars, dvars, bvars, pvars, mvars, evars, yvars, swept, enqueuer,
                   templates, templates_by_slug, layouts, default_layout,
                   bounces, complaints, max_entries, transport>>

----------------------------------------------------------------------------
(* SpecLocks: two callers of the LogService, any method each, concurrently. *)

LockMaxBounces == 1     \* bounces SpecLocks records per address before a call
LockEvents == {"Delivered", "SoftBounce", "HardBounce", "SpamComplaint", "Unsubscribed"}

LockInit ==
    /\ QueueInit
    /\ max_size = 1
    /\ retry_max_attempts = 1
    /\ RegistryInit
    /\ max_entries = 1
    /\ transport = FALSE

\* the steps of a call of the LogService under way
LogCallStep(t) ==
    \/ LogLockLogs(t)
    \/ LogLockBounces(t)
    \/ LogLockComplaints(t)
    \/ LogLockSuppression(t)
    \/ LogPush(t)
    \/ RegistryLock(t)
    \/ RegistryReturn(t)

LockNext ==
    \/ \E t \in Callers, e \in LockEvents :
          LogBegin(t, NewEntry(1, e, "a@x.com", now), LockMaxBounces)
    \/ \E t \in Callers, op \in RegistryOps : RegistryBegin(t, op, "a@x.com", 0)
    \/ \E t \in Callers : LogCallStep(t)

SpecLocks == LockInit /\ [][LockNext]_vars

\* C36: whenever calls of the LogService are under way, one of them can take
\* its next step, and a lock that a caller waits for is held by a caller
\* that waits for nothing
C36_LogCallsNeverBlockEachOther ==
    /\ (\E t \in Callers : Underway(t)) =>
          \E t \in Callers : Underway(t) /\ ENABLED LogCallStep(t)
    /\ \A t \in Callers :
          (Underway(t) /\ ~ENABLED LogCallStep(t)) =>
              \A u \in Callers \ {t} : callers[u].held # {} => ENABLED LogCallStep(u)

\* a log call holds the logs and the bounces guards and waits for the
\* suppression list, which an is_suppressed call holds
C36_Witness ==
    /\ callers["t1"].pc = "add_to_suppression"
    /\ callers["t1"].held = {<<"logs", "w">>, <<"bounces", "w">>}
    /\ callers["t2"].held = {<<"suppression_list", "r">>}
    /\ ~ENABLED LogCallStep("t1")

----------------------------------------------------------------------------
(* worker_id, under Spec *)

\* C37: an item has a worker_id exactly when it is Processing
C37_WorkerIdIffProcessing ==
    \A id \in DOMAIN items :
        items[id].worker_id # NoText <=> items[id].status = "Processing"

----------------------------------------------------------------------------
(* services/mailer.rs: queue_email, as deliver calls it under the default  *)
(* configuration (queue_by_default), one step per await.                   *)

\* deliver(msg) with queue_by_default, line 193: queue_email(msg) begins
QueueEmailBegin(s, msg) ==
    /\ config.queue_by_default
    /\ senders[s].pc \in {"idle", "done"}
    /\ senders' = [senders EXCEPT ![s] =
          [IdleSender EXCEPT !.msg = msg, !.i = 1,
              !.pc = IF Recipients(msg) = <<>> THEN "q_admit" ELSE "q_check"]]
    /\ UNCHANGED <<qvars, dvars, bvars, pvars, mvars, evars, xvars, yvars, logs, bounces,
                   complaints, suppression_list, max_entries, transport, unsuppressed>>

\* queue_email, lines 172-176: is_suppressed on the next recipient
QueueEmailCheck(s) ==
    /\ senders[s].pc = "q_check"
    /\ LET sd == senders[s]
           recipient == Recipients(sd.msg)[sd.i]
       IN  senders' = [senders EXCEPT ![s] =
              IF is_suppressed(suppression_list, recipient)
              THEN [sd EXCEPT !.pc = "done", !.result = <<"Suppressed", recipient>>]
              ELSE IF sd.i = Len(Recipients(sd.msg))
              THEN [sd EXCEPT !.pc = "q_admit", !.i = 1]
              ELSE [sd EXCEPT !.i = sd.i + 1]]
    /\ UNCHANGED <<qvars, dvars, bvars, pvars, mvars, evars, xvars, yvars, logs, bounces,
                   complaints, suppression_list, max_entries, transport, unsuppressed>>

\* enqueue, lines 56-60: the capacity check under the read lock
QueueEmailAdmit(s, max_ids) ==
    /\ senders[s].pc = "q_admit"
    /\ next_id <= max_ids
    /\ senders' = [senders EXCEPT ![s] =
          IF Size(items) >= max_size
          THEN [@ EXCEPT !.pc = "done", !.result = <<"Queue", "Queue full">>]
          ELSE [@ EXCEPT !.pc = "q_insert"]]
    /\ UNCHANGED <<qvars, dvars, bvars, pvars, mvars, evars, xvars, yvars, logs, bounces,
                   complaints, suppression_list, max_entries, transport, unsuppressed>>

\* enqueue, lines 62-68: the insert under the write lock
QueueEmailInsert(s) ==
    /\ senders[s].pc = "q_insert"
    /\ items' = [id \in DOMAIN items \cup {next_id} |->
                    IF id = next_id
                    THEN NewItem(senders[s].msg, now, now, retry_max_attempts)
                    ELSE items[id]]
    /\ next_id' = next_id + 1
    /\ senders' = [senders EXCEPT ![s] =
          IF senders[s].msg.to = <<>>
          THEN [@ EXCEPT !.pc = "done", !.result = <<"Ok", NoText>>]
          ELSE [@ EXCEPT !.pc = "q_log", !.i = 1]]
    /\ UNCHANGED <<now, max_size, retry_max_attempts, clients, workers,
                   dvars, bvars, pvars, mvars, evars, xvars, yvars, logs, bounces,
                   complaints, suppression_list, max_entries, transport, unsuppressed>>

\* queue_email, lines 181-183: log_queued for the next recipient of to
QueueEmailLog(s) ==
    /\ senders[s].pc = "q_log"
    /\ LET sd == senders[s]
           next == IF sd.i = Len(sd.msg.to)
                   THEN [sd EXCEPT !.pc = "done", !.result = <<"Ok", NoText>>]
                   ELSE [sd EXCEPT !.i = sd.i + 1]
       IN  LogEffect([senders EXCEPT ![s] = next],
                     NewEntry(sd.msg.id, "Queued", sd.msg.to[sd.i], now))
    /\ UNCHANGED <<qvars, dvars, bvars, pvars, mvars, evars, xvars, yvars, max_entries,
                   transport, unsuppressed>>

----------------------------------------------------------------------------
(* SpecGate: one caller queues messages with up to two recipients in to    *)
(* and one in cc and bcc, while the operator suppresses and unsuppresses.  *)

GateMaxIds == 2        \* ids SpecGate hands out
GateMaxSize == 1       \* max_size of the queue in SpecGate
GateMaxEntries == 2    \* max_entries of the log in SpecGate
GateMessages ==
    [id : EmailIds,
     to : {<<>>, <<"b@x.com">>, <<"b@x.com", "a@x.com">>},
     cc : {<<>>, <<"A@x.com">>},
     bcc : {<<>>, <<"a@x.com">>}]

GateInit ==
    /\ QueueInit
    /\ max_size = GateMaxSize
    /\ retry_max_attempts = 1
    /\ RegistryInit
    /\ max_entries = GateMaxEntries
    /\ transport = FALSE

GateNext ==
    \/ \E m \in GateMessages : QueueEmailBegin("s1", m)
    \/ QueueEmailCheck("s1")
    \/ QueueEmailAdmit("s1", GateMaxIds)
    \/ QueueEmailInsert("s1")
    \/ QueueEmailLog("s1")
    \/ \E a \in Addresses, r \in Reasons : AddToSuppression(a, r)
    \/ \E a \in Addresses : RemoveFromSuppression(a)

SpecGate == GateInit /\ [][GateNext]_vars

\* the call of queue_email by s takes a step
GateStep(s) ==
    /\ senders[s].pc \in {"q_check", "q_admit", "q_insert", "q_log"}
    /\ senders'[s].pc # senders[s].pc \/ senders'[s].i # senders[s].i

\* C38: a call of queue_email on a message with a suppressed recipient in
\* to, cc or bcc (the suppression list unchanged since the call began) stays
\* in the suppression check and returns Suppressed for such a recipient; the
\* check and a refusal add no item and no log entry; a call that gets past
\* them adds one Pending item for the message and then one Queued entry for
\* each recipient of to, in order, before it returns Ok
C38_QueueAdmissionGatedBySuppression ==
    /\ [](LET sd == senders["s1"]
          IN  (sd.pc # "idle" /\ sd.quiet /\ SuppressedRecipients(sd.msg) # {}) =>
                  /\ sd.pc \in {"q_check", "done"}
                  /\ sd.pc = "done" =>
                        /\ sd.result[1] = "Suppressed"
                        /\ sd.result[2] \in SuppressedRecipients(sd.msg))
    /\ [][GateStep("s1") =>
            LET sd == senders["s1"]
                after == senders'["s1"]
            IN  /\ sd.pc \in {"q_check", "q_admit"} => (items' = items /\ logs' = logs)
                /\ after.pc = "done" =>
                      (after.result[1] = "Ok" <=> sd.pc \in {"q_insert", "q_log"})
                /\ sd.pc = "q_insert" =>
                      /\ logs' = logs
                      /\ DOMAIN items' = DOMAIN items \cup {next_id}
                      /\ next_id \notin DOMAIN items
                      /\ items'[next_id].status = "Pending"
                      /\ items'[next_id].email = sd.msg
                      /\ \A id \in DOMAIN items : items'[id] = items[id]
                      /\ after.pc = "done" <=> sd.msg.to = <<>>
                      /\ after.pc # "done" => (after.pc = "q_log" /\ after.i = 1)
                /\ sd.pc = "q_log" =>
                      /\ items' = items
                      /\ logs' = PushTrim(logs, NewEntry(sd.msg.id, "Queued",
                                                         sd.msg.to[sd.i], now), max_entries)
                      /\ after.pc = "done" <=> sd.i = Len(sd.msg.to)
                      /\ after.pc # "done" => (after.pc = "q_log" /\ after.i = sd.i + 1)
         ]_vars

\* a message to two recipients is queued and logged twice, and a later one
\* with a suppressed cc recipient is refused with nothing added
C38_Witness ==
    /\ senders["s1"].pc = "done"
    /\ senders["s1"].quiet
    /\ senders["s1"].result = <<"Suppressed", "A@x.com">>
    /\ senders["s1"].msg.to = <<"b@x.com">>
    /\ Cardinality(DOMAIN items) = 1
    /\ Len(logs) = 2
    /\ logs[1].recipient = "b@x.com" /\ logs[2].recipient = "a@x.com"
    /\ \A i \in 1..2 : logs[i].event = "Queued"
    /\ \A id \in DOMAIN items : items[id].email.to = <<"b@x.com", "a@x.com">>

====
